---- MODULE Spec2Model ----
(***************************************************************************)
(* Verification model of the MIAL super-resolution toolkit (pymialsrtk):  *)
(*   - the core-count negotiation of docker/bidsapp/run.py,                *)
(*   - the multi-stack preprocessing interfaces of                         *)
(*     pymialsrtk/interfaces/preprocess.py,                                *)
(*   - the batch loop and main() of docker/bidsapp/run.py,                 *)
(*   - AnatomicalPipeline of pymialsrtk/pipelines/anatomical/srr.py and    *)
(*     create_preproc_stage of pymialsrtk/workflows/preproc_stage.py.      *)
(* Paths are sequences of one-character strings so that the run-index      *)
(* parsing (str.split / int) is computed as the code computes it.          *)
(***************************************************************************)
EXTENDS Integers, Sequences, FiniteSets, TLC

(***************************************************************************)
(* Bounds of the model                                                     *)
(***************************************************************************)
\* largest number of cores reported by multiprocessing.cpu_count()
MaxCores == 8
\* largest value given to --openmp_nb_of_cores / --nipype_nb_of_cores
MaxRequested == 10

\* largest run index appearing in a file name or in stacks_order
MaxRun == 2
\* largest number of stacks of one subject/session
MaxStacks == 3
\* largest number of stacks of a subject one of whose files is misnamed
MaxMalformedStacks == 2

\* default of the keyword argument openmp_proportion
openmp_proportion == 2

VARIABLES
    \* ---- docker/bidsapp/run.py : check_and_return_valid_nb_of_cores ----
    nb_of_cores,            \* multiprocessing.cpu_count()
    args_openmp,            \* args.openmp_nb_of_cores as parsed
    args_nipype,            \* args.nipype_nb_of_cores as parsed
    openmp_nb_of_cores,     \* local variable / returned value
    nipype_nb_of_cores,     \* local variable / returned value
    warned,                 \* a WARNING line was printed
    cores_pc,               \* "args" | "resolved" | "ZeroDivisionError"
    \* ---- pymialsrtk/interfaces/preprocess.py : one multi-stack node ----
    interface,              \* which interface class the node wraps
    inputs_bids_dir,        \* self.inputs.bids_dir of a single-stack interface
    getcwd,                 \* os.getcwd() during its run
    input_images,           \* self.inputs.input_images (list of paths)
    input_masks,            \* self.inputs.input_masks
    input_fields,           \* self.inputs.input_fields
    given_order,            \* stacks_order as set on the node before run
    stacks_order,           \* self.inputs.stacks_order
    run_nb_images,          \* local list run_nb_images
    run_nb_masks,           \* local list run_nb_masks
    run_nb_fields,          \* local list run_nb_fields
    k,                      \* position of the for loop over stacks_order
    calls,                  \* external transforms invoked so far
    cmd,                    \* arguments accumulated in the command line
    cwd_files,              \* files written into the node's directory
    outputs,                \* what _list_outputs reported
    error,                  \* exception raised by _run_interface
    pc,                     \* "idle"|"start"|"loop"|"ran"|"done"|"failed"
    \* ---- docker/bidsapp/run.py : __main__ and main ----
    participant_label,      \* args.participant_label (list of labels)
    participants_params,    \* the JSON parameter file: label -> list of dict
    sub_i,                  \* position of "for sub in args.participant_label"
    sr_i,                   \* position of "for sr_params in sr_list"
    mains,                  \* the calls of main() made so far
    skipped,                \* the 'Do not process subjects' lines printed
    exit_code,              \* exit status of the process (-1: running)
    batch_pc,               \* "idle" | "labels" | "loop" | "exited"
    \* ---- pymialsrtk/pipelines/anatomical/srr.py, workflows ----
    pipeline,               \* attributes of the AnatomicalPipeline object
    wf_nodes,               \* nodes of the workflow graph
    wf_edges,               \* connections <<node, port, node, port>>
    outputnode_fields,      \* fields of the IdentityInterface 'outputnode'
    substitutions,          \* datasink.inputs.substitutions
    in_dict,                \* dictsink.inputs.in_dict (run order, count)
    node_out,               \* outputs of the nodes executed so far
    current,                \* the node being executed, "none" if none
    executed,               \* nodes executed so far
    failed_nodes,           \* nodes in which an external transform failed
    p_do_nlm_denoising,     \* argument of create_preproc_stage
    p_multi_parameters,     \* argument of create_sr_assessment_stage
    graph_written,          \* graph.png written by self.wf.write_graph
    published,              \* paths written by the data sink
    sidecar,                \* the JSON file written by dictsink.run()
    wf_pc                   \* position in create_workflow() / run()

cores_vars == <<nb_of_cores, args_openmp, args_nipype, openmp_nb_of_cores,
                nipype_nb_of_cores, warned, cores_pc>>

stage_vars == <<interface, inputs_bids_dir, getcwd, input_images,
                input_masks, input_fields,
                given_order, stacks_order, run_nb_images, run_nb_masks,
                run_nb_fields, k, calls, cmd, cwd_files, outputs, error, pc>>

batch_vars == <<participant_label, participants_params, sub_i, sr_i, mains,
                skipped, exit_code, batch_pc>>

wf_vars == <<pipeline, wf_nodes, wf_edges, outputnode_fields, substitutions,
             in_dict, node_out, current, executed, failed_nodes,
             p_do_nlm_denoising, p_multi_parameters,
                   graph_written, published, sidecar, wf_pc>>

vars == <<nb_of_cores, args_openmp, args_nipype, openmp_nb_of_cores,
          nipype_nb_of_cores, warned, cores_pc,
          interface, inputs_bids_dir, getcwd,
          input_images, input_masks, input_fields,
          given_order, stacks_order, run_nb_images, run_nb_masks,
          run_nb_fields, k, calls, cmd, cwd_files, outputs, error, pc,
          participant_label, participants_params, sub_i, sr_i, mains,
          skipped, exit_code, batch_pc,
          pipeline, wf_nodes, wf_edges, outputnode_fields, substitutions,
          in_dict, node_out, current, executed, failed_nodes,
             p_do_nlm_denoising, p_multi_parameters,
                   graph_written, published, sidecar, wf_pc>>

(***************************************************************************)
(* docker/bidsapp/run.py                                                   *)
(***************************************************************************)

\* a variant that gives the engine the cores left by the transforms
return_default_by_difference(nb, proportion) ==
    LET omp == nb \div proportion
    IN  IF omp = 0
        THEN [raised |-> TRUE,  openmp |-> omp, nipype |-> 0]
        ELSE [raised |-> FALSE, openmp |-> omp, nipype |-> nb - omp]

\* return_default_nb_of_cores: two integer divisions; the second one raises
\* ZeroDivisionError when the first quotient is zero.
return_default_nb_of_cores(nb, proportion) ==
    LET omp == nb \div proportion
    IN  IF omp = 0
        THEN [raised |-> TRUE,  openmp |-> omp, nipype |-> 0]
        ELSE [raised |-> FALSE, openmp |-> omp, nipype |-> nb \div omp]

\* check_and_return_valid_nb_of_cores as a function of its two arguments and
\* of the cpu count: the returned pair, whether a warning was printed and
\* whether the call raised.
Kept(omp, nip, w) ==
    [raised |-> FALSE, openmp |-> omp, nipype |-> nip, warned |-> w]

Reset(nb, w) ==
    LET d == return_default_nb_of_cores(nb, openmp_proportion)
    IN  [raised |-> d.raised, openmp |-> d.openmp, nipype |-> d.nipype,
         warned |-> w]

\* a variant that forgets "openmp_nb_of_cores = nb_of_cores" when the only
\* given count is --openmp_nb_of_cores and reaches the number of cores
check_without_clamp(omp, nip, nb) ==
    IF omp = 0 /\ nip = 0 THEN
        Reset(nb, FALSE)
    ELSE IF omp > 0 /\ nip = 0 THEN
        IF omp >= nb
        THEN Kept(omp, 1, omp > nb)
        ELSE Kept(omp, nb \div omp, FALSE)
    ELSE IF omp = 0 /\ nip > 0 THEN
        IF nip >= nb
        THEN Kept(1, nb, nip > nb)
        ELSE Kept(nb \div nip, nip, FALSE)
    ELSE IF omp > 0 /\ nip > 0 THEN
        IF nip >= nb THEN
            IF omp >= nb THEN Reset(nb, TRUE)
            ELSE IF omp * nip > nb THEN Reset(nb, TRUE)
            ELSE Kept(omp, nip, FALSE)
        ELSE
            IF omp >= nb THEN Reset(nb, TRUE)
            ELSE IF omp * nip > nb THEN Reset(nb, TRUE)
            ELSE Kept(omp, nip, FALSE)
    ELSE Kept(omp, nip, FALSE)

check_and_return_valid_nb_of_cores(omp, nip, nb) ==
    IF omp = 0 /\ nip = 0 THEN
        Reset(nb, FALSE)
    ELSE IF omp > 0 /\ nip = 0 THEN
        IF omp >= nb
        THEN Kept(nb, 1, omp > nb)
        ELSE Kept(omp, nb \div omp, FALSE)
    ELSE IF omp = 0 /\ nip > 0 THEN
        IF nip >= nb
        THEN Kept(1, nb, nip > nb)
        ELSE Kept(nb \div nip, nip, FALSE)
    ELSE IF omp > 0 /\ nip > 0 THEN
        IF nip >= nb THEN
            IF omp >= nb THEN Reset(nb, TRUE)
            ELSE IF omp * nip > nb THEN Reset(nb, TRUE)
            ELSE Kept(omp, nip, FALSE)
        ELSE
            IF omp >= nb THEN Reset(nb, TRUE)
            ELSE IF omp * nip > nb THEN Reset(nb, TRUE)
            ELSE Kept(omp, nip, FALSE)
    ELSE Kept(omp, nip, FALSE)

(***************************************************************************)
(* Strings: a path is a sequence of one-character strings                  *)
(***************************************************************************)
DigitChars == <<"0", "1", "2", "3", "4", "5", "6", "7", "8", "9">>

IsDigit(c) == \E d \in 1..10 : DigitChars[d] = c

DigitVal(c) == (CHOOSE d \in 1..10 : DigitChars[d] = c) - 1

\* str(n) of a non-negative integer
RECURSIVE Str(_)
Str(n) ==
    IF n < 10 THEN <<DigitChars[n + 1]>>
    ELSE Str(n \div 10) \o <<DigitChars[(n % 10) + 1]>>

\* the least element of a non-empty set of integers
Least(S) == CHOOSE i \in S : \A j \in S : i <= j

FirstOrZero(hits) == IF hits = {} THEN 0 ELSE Least(hits)

\* s.find(sep) + 1 : position of the first occurrence of sep in s, 0 if none
Find(s, sep) ==
    FirstOrZero({i \in 1..(Len(s) - Len(sep) + 1) :
                    \A j \in 1..Len(sep) : s[i + j - 1] = sep[j]})

\* s.split(sep); SplitAt is given the position of the first separator
RECURSIVE Split(_, _), SplitAt(_, _, _)
SplitAt(s, sep, i) ==
    IF i = 0 THEN <<s>>
    ELSE <<SubSeq(s, 1, i - 1)>>
         \o Split(SubSeq(s, i + Len(sep), Len(s)), sep)

Split(s, sep) == SplitAt(s, sep, Find(s, sep))

EndsWith(s, suffix) ==
    /\ Len(s) >= Len(suffix)
    /\ SubSeq(s, Len(s) - Len(suffix) + 1, Len(s)) = suffix

\* value of a non-empty sequence of decimal digits
RECURSIVE DigitsVal(_)
DigitsVal(t) ==
    IF Len(t) = 0 THEN 0
    ELSE 10 * DigitsVal(SubSeq(t, 1, Len(t) - 1)) + DigitVal(t[Len(t)])

\* int(t) : an optional sign followed by at least one decimal digit
\* (the modelled file names contain no white space)
IntBody(t) ==
    IF Len(t) > 0 /\ t[1] \in {"+", "-"} THEN Tail(t) ELSE t

IsIntText(t) ==
    /\ Len(IntBody(t)) > 0
    /\ \A i \in 1..Len(IntBody(t)) : IsDigit(IntBody(t)[i])

IntOf(t) ==
    IF Len(t) > 0 /\ t[1] = "-" THEN 0 - DigitsVal(IntBody(t))
    ELSE DigitsVal(IntBody(t))

RunMarker  == <<"r", "u", "n", "-">>
Underscore == <<"_">>
NiiGz      == <<".", "n", "i", "i", ".", "g", "z">>

\* The three statements repeated for every list of every multi-stack
\* interface:
\*     cut_avt = in_file.split('run-')[1]
\*     cut_apr = cut_avt.split('_')[0]
\*     run_nb_images.append(int(cut_apr))
\* [1] raises IndexError when the marker is absent, int() raises ValueError.
\* a variant that takes a text that is not an integer for run index 0
IntOfTextLenient(cut_apr) ==
    IF IsIntText(cut_apr)
    THEN [err |-> "none", val |-> IntOf(cut_apr)]
    ELSE [err |-> "none", val |-> 0]

IntOfText(cut_apr) ==
    IF IsIntText(cut_apr)
    THEN [err |-> "none", val |-> IntOf(cut_apr)]
    ELSE [err |-> "ValueError", val |-> 0]

AfterMarker(parts) ==
    IF Len(parts) < 2 THEN [err |-> "IndexError", val |-> 0]
    ELSE IntOfText(Split(parts[2], Underscore)[1])

identity_of(path) == AfterMarker(Split(path, RunMarker))

\* The for loop that fills run_nb_images / run_nb_masks / run_nb_fields:
\* the exception of the first path that does not parse leaves the loop.
RECURSIVE ParseList(_)
ParseFrom(first, rest) ==
    IF first.err # "none" THEN [err |-> first.err, vals |-> <<>>]
    ELSE IF rest.err # "none" THEN rest
    ELSE [err |-> "none", vals |-> <<first.val>> \o rest.vals]

ParseList(paths) ==
    IF Len(paths) = 0 THEN [err |-> "none", vals |-> <<>>]
    ELSE ParseFrom(identity_of(Head(paths)), ParseList(Tail(paths)))

\* a variant that pairs by list position: run index r is taken at position r
IndexByPosition(list, x) ==
    IF x + 1 \in 1..Len(list) THEN x + 1 ELSE 0

\* a variant that substitutes the first element for a missing one
IndexOrFirst(list, x) ==
    IF \E i \in 1..Len(list) : list[i] = x
    THEN FirstOrZero({i \in 1..Len(list) : list[i] = x})
    ELSE IF Len(list) > 0 THEN 1 ELSE 0

\* list.index(x) + 1 : position of the first element equal to x, 0 when the
\* Python call raises ValueError
Index(list, x) ==
    FirstOrZero({i \in 1..Len(list) : list[i] = x})

\* nipype.utils.filemanip.split_filename on a base name: the special
\* extension '.nii.gz' is split off whole, otherwise the last extension
split_filename(path) ==
    IF EndsWith(path, NiiGz)
    THEN [name |-> SubSeq(path, 1, Len(path) - Len(NiiGz)), ext |-> NiiGz]
    ELSE LET dots == {i \in 1..Len(path) : path[i] = "."}
         IN  IF dots = {} THEN [name |-> path, ext |-> <<>>]
             ELSE LET d == CHOOSE i \in dots : \A j \in dots : j <= i
                  IN  [name |-> SubSeq(path, 1, d - 1),
                       ext  |-> SubSeq(path, d, Len(path))]

\* ''.join((name, out_postfix, ext)) : the file a single-stack interface
\* tells its external transform to write
OutFile(in_file, postfix) ==
    LET sf == split_filename(in_file)
    IN  sf.name \o postfix \o sf.ext

(***************************************************************************)
(* pymialsrtk/interfaces/preprocess.py : the multi-stack interfaces        *)
(***************************************************************************)
Interfaces ==
    {"MultipleBtkNLMDenoising",
     "MultipleMialsrtkCorrectSliceIntensity",
     "MultipleMialsrtkSliceBySliceN4BiasFieldCorrection",
     "MultipleMialsrtkSliceBySliceCorrectBiasField",
     "MialsrtkHistogramNormalization",
     "MultipleMialsrtkMaskImage"}

\* "if not self.inputs.stacks_order: ... = list(range(0, len(input_images)))"
\* is the first statement of every _run_interface but the one of
\* MultipleMialsrtkMaskImage
DefaultsOrder(itf) == itf # "MultipleMialsrtkMaskImage"

\* "if len(self.inputs.input_masks) > 0" guards the mask lookup
MaskIsOptional(itf) ==
    itf \in {"MultipleBtkNLMDenoising",
             "MultipleMialsrtkCorrectSliceIntensity",
             "MialsrtkHistogramNormalization"}

TakesField(itf) == itf = "MultipleMialsrtkSliceBySliceCorrectBiasField"

\* every loop iteration runs one single-stack interface, except in
\* MialsrtkHistogramNormalization whose loop only extends the command line
RunsPerStack(itf) == itf # "MialsrtkHistogramNormalization"

U == <<"_">>
\* defaults of out_postfix / out_im_postfix / out_fld_postfix
PostfixNlm      == U \o <<"n", "l", "m">>
PostfixBcorr    == U \o <<"b", "c", "o", "r", "r">>
PostfixN4bias   == U \o <<"n", "4", "b", "i", "a", "s">>
PostfixHistnorm == U \o <<"h", "i", "s", "t", "n", "o", "r", "m">>

OutImPostfix(itf) ==
    CASE itf = "MultipleBtkNLMDenoising" -> PostfixNlm
      [] itf = "MultipleMialsrtkCorrectSliceIntensity" -> <<>>
      [] itf = "MultipleMialsrtkSliceBySliceN4BiasFieldCorrection" -> PostfixBcorr
      [] itf = "MultipleMialsrtkSliceBySliceCorrectBiasField" -> PostfixBcorr
      [] itf = "MialsrtkHistogramNormalization" -> PostfixHistnorm
      [] itf = "MultipleMialsrtkMaskImage" -> <<>>

PostfixUni == U \o <<"u", "n", "i">>

\* out_postfix of the node being executed: srr.py sets '_uni' on its two
\* srtkCorrectSliceIntensity01 nodes, every other node keeps the default
OutPostfix(itf) ==
    IF current \in {"srtkCorrectSliceIntensity01_nlm",
                    "srtkCorrectSliceIntensity01"}
    THEN PostfixUni
    ELSE OutImPostfix(itf)

\* files the external transform of one stack writes when it succeeds
WrittenBy(itf, in_file) ==
    IF itf = "MultipleMialsrtkSliceBySliceN4BiasFieldCorrection"
    THEN {OutFile(in_file, PostfixBcorr), OutFile(in_file, PostfixN4bias)}
    ELSE {OutFile(in_file, OutPostfix(itf))}

NoFile == <<>>

\* the arguments one stack contributes to an external transform, and whether
\* the transform succeeded
Invocation(order, in_file, in_mask, in_field, ok) ==
    [order |-> order, in_file |-> in_file, in_mask |-> in_mask,
     in_field |-> in_field, ok |-> ok]

\* the default "list(range(0, len(self.inputs.input_images)))"
RangeOrder(n) == [i \in 1..n |-> i - 1]

\* a variant that ignores the order it is given
EffectiveOrderIgnored(itf, order, images) == RangeOrder(Len(images))

EffectiveOrder(itf, order, images) ==
    IF DefaultsOrder(itf) /\ Len(order) = 0
    THEN RangeOrder(Len(images))
    ELSE order

\* The selection the loop over stacks_order makes in a collection whose run
\* indices are run_nb:
\*     index_img = run_nb_images.index(order) ; ...input_images[index_img]
\* as a function of the collection and of the order, with the run indices of
\* the selected files; list.index raises ValueError for a run index that is
\* not in the collection.
Picked(collection, run_nb, positions) ==
    IF \E i \in 1..Len(positions) : positions[i] = 0
    THEN [err |-> "ValueError", seq |-> <<>>, run_nb |-> <<>>]
    ELSE [err    |-> "none",
          seq    |-> [i \in 1..Len(positions) |-> collection[positions[i]]],
          run_nb |-> [i \in 1..Len(positions) |-> run_nb[positions[i]]]]

Positions(run_nb, order) ==
    [i \in 1..Len(order) |-> Index(run_nb, order[i])]

reorder(collection, run_nb, order) ==
    Picked(collection, run_nb, Positions(run_nb, order))

\* the exception that ends the parsing of the three lists, "none" if none
FirstError(pi, pm, pf) ==
    IF pi.err # "none" THEN pi.err
    ELSE IF pm.err # "none" THEN pm.err
    ELSE pf.err

\* the state after the three parsing loops, given their results
Parsed(pi, pm, pf) ==
    /\ error' = FirstError(pi, pm, pf)
    /\ pc' = IF FirstError(pi, pm, pf) = "none" THEN "loop" ELSE "failed"
    /\ run_nb_images' = pi.vals
    /\ run_nb_masks'  = IF pi.err = "none" THEN pm.vals ELSE <<>>
    /\ run_nb_fields' = IF pi.err = "none" /\ pm.err = "none"
                        THEN pf.vals ELSE <<>>

\* largest number of nodes of one workflow run in which an external
\* transform fails
MaxFailedNodes == 1

\* the ways an external transform may end: well, or with an error as long
\* as fewer than MaxFailedNodes nodes of the run have seen one
TransformOutcomes ==
    IF Cardinality(failed_nodes) < MaxFailedNodes THEN BOOLEAN ELSE {TRUE}

\* _run_interface, from its first line up to the for loop over stacks_order:
\* default order, then the run indices of the images, the masks, the fields
RunInterfaceBegin ==
    /\ pc = "start"
    /\ stacks_order' = EffectiveOrder(interface, stacks_order, input_images)
    /\ Parsed(ParseList(input_images),
              ParseList(input_masks),
              IF TakesField(interface) THEN ParseList(input_fields)
              ELSE [err |-> "none", vals |-> <<>>])
    /\ k' = 1
    /\ UNCHANGED <<interface, inputs_bids_dir, getcwd, input_images, input_masks, input_fields,
                   given_order, calls, cmd, cwd_files, outputs>>
    /\ UNCHANGED <<cores_vars, batch_vars, wf_vars>>

\* one iteration of "for order in self.inputs.stacks_order": the lookups by
\* run index, then ax.run() of the single-stack interface.  The single-stack
\* _run_interface catches the exception of a failing external transform,
\* prints 'Failed' and returns, so ax.run() returns normally either way.
RunInterfaceIter ==
    /\ pc = "loop"
    /\ k <= Len(stacks_order)
    /\ LET order      == stacks_order[k]
           index_img  == Index(run_nb_images, order)
           with_mask  == ~(MaskIsOptional(interface) /\ Len(input_masks) = 0)
           index_mask == IF with_mask THEN Index(run_nb_masks, order) ELSE 0
           index_fld  == IF TakesField(interface)
                         THEN Index(run_nb_fields, order) ELSE 0
           missing    == \/ index_img = 0
                         \/ with_mask /\ index_mask = 0
                         \/ TakesField(interface) /\ index_fld = 0
       IN  IF missing
           THEN /\ pc' = "failed"
                /\ error' = "ValueError"
                /\ UNCHANGED <<k, calls, cmd, cwd_files>>
           ELSE LET in_file  == input_images[index_img]
                    in_mask  == IF with_mask THEN input_masks[index_mask]
                                ELSE NoFile
                    in_field == IF TakesField(interface)
                                THEN input_fields[index_fld] ELSE NoFile
                IN  /\ k' = k + 1
                    /\ UNCHANGED <<pc, error>>
                    /\ IF RunsPerStack(interface)
                       THEN /\ \E ok \in TransformOutcomes :
                                 /\ calls' = Append(calls,
                                       Invocation(order, in_file, in_mask,
                                                  in_field, ok))
                                 /\ cwd_files' =
                                      IF ok
                                      THEN cwd_files \cup
                                           WrittenBy(interface, in_file)
                                      ELSE cwd_files
                            /\ UNCHANGED cmd
                       ELSE /\ cmd' = Append(cmd,
                                       Invocation(order, in_file, in_mask,
                                                  in_field, TRUE))
                            /\ UNCHANGED <<calls, cwd_files>>
    /\ UNCHANGED <<interface, inputs_bids_dir, getcwd, input_images, input_masks, input_fields,
                   given_order, stacks_order, run_nb_images, run_nb_masks,
                   run_nb_fields, outputs>>
    /\ UNCHANGED <<cores_vars, batch_vars, wf_vars>>

\* _run_interface after the last iteration.  MialsrtkHistogramNormalization
\* only now runs its one command, built from the arguments of all stacks;
\* its failure is caught and printed as well.
RunInterfaceEnd ==
    /\ pc = "loop"
    /\ k > Len(stacks_order)
    /\ pc' = "ran"
    /\ IF RunsPerStack(interface)
       THEN UNCHANGED <<calls, cwd_files>>
       ELSE \E ok \in TransformOutcomes :
               /\ calls' = [i \in 1..Len(cmd) |-> [cmd[i] EXCEPT !.ok = ok]]
               /\ cwd_files' =
                    IF ok
                    THEN cwd_files \cup
                         {OutFile(cmd[i].in_file, OutPostfix(interface)) :
                            i \in 1..Len(cmd)}
                    ELSE cwd_files
    /\ UNCHANGED <<interface, inputs_bids_dir, getcwd, input_images, input_masks, input_fields,
                   given_order, stacks_order, run_nb_images, run_nb_masks,
                   run_nb_fields, k, cmd, outputs, error>>
    /\ UNCHANGED <<cores_vars, batch_vars, wf_vars>>

\* the suffix of the pattern handed to glob() by _list_outputs
GlobSuffix(itf) ==
    IF itf \in {"MultipleBtkNLMDenoising",
                "MultipleMialsrtkCorrectSliceIntensity",
                "MultipleMialsrtkMaskImage"}
    THEN NiiGz
    ELSE OutPostfix(itf) \o NiiGz

\* the files of the node directory that match '*' + suffix
Glob(files, suffix) == {f \in files : EndsWith(f, suffix)}

\* all the orders in which a set can be listed
PermsOf(S) ==
    {f \in [1..Cardinality(S) -> S] :
        \A i, j \in 1..Cardinality(S) : i # j => f[i] # f[j]}

\* _list_outputs: glob() lists the matching files in an order that depends
\* on the file system
ListOutputs ==
    /\ pc = "ran"
    /\ pc' = "done"
    /\ \E ims \in PermsOf(Glob(cwd_files, GlobSuffix(interface))) :
       \E flds \in PermsOf(
             IF interface = "MultipleMialsrtkSliceBySliceN4BiasFieldCorrection"
             THEN Glob(cwd_files, PostfixN4bias \o NiiGz) ELSE {}) :
          outputs' = [output_images |-> ims, output_fields |-> flds]
    /\ UNCHANGED <<interface, inputs_bids_dir, getcwd, input_images, input_masks, input_fields,
                   given_order, stacks_order, run_nb_images, run_nb_masks,
                   run_nb_fields, k, calls, cmd, cwd_files, error>>
    /\ UNCHANGED <<cores_vars, batch_vars, wf_vars>>

(***************************************************************************)
(* Specifications                                                          *)
(***************************************************************************)
SubSes == <<"s", "u", "b", "-", "0", "1">>
T2w    == <<"_", "T", "2", "w">>

ImageSuffix == T2w
MaskSuffix  == T2w \o <<"_", "m", "a", "s", "k">>
FieldSuffix == T2w \o PostfixN4bias

\* a file name: subject, the part that carries the run index, the suffix
StackFile(run_part, suffix) == SubSes \o U \o run_part \o suffix \o NiiGz

\* file names as the data grabber templates of srr.py match them
\* ('sub-01_run-1_T2w.nii.gz'), with the run index written by str()
ImagePath(r) == StackFile(RunMarker \o Str(r), ImageSuffix)
MaskPath(r)  == StackFile(RunMarker \o Str(r), MaskSuffix)
FieldPath(r) == OutFile(ImagePath(r), PostfixN4bias)

\* the names of the files of every run index, as tables
Runs == 0..MaxRun
ImageOf == [r \in Runs |-> ImagePath(r)]
MaskOf  == [r \in Runs |-> MaskPath(r)]
FieldOf == [r \in Runs |-> FieldPath(r)]

\* other ways to write the part of the name that carries the run index r
WellFormedKinds == {"plain", "leading zero"}
MalformedKinds  == {"no marker", "not a number", "empty", "trailing text"}

RunPart(kind, r) ==
    CASE kind = "plain"         -> RunMarker \o Str(r)
      [] kind = "leading zero"  -> RunMarker \o <<"0">> \o Str(r)
      [] kind = "no marker"     -> <<"r", "u", "n">> \o Str(r)
      [] kind = "not a number"  -> RunMarker \o <<"x">>
      [] kind = "empty"         -> RunMarker
      [] kind = "trailing text" -> RunMarker \o Str(r) \o <<"a">>

\* a set of stacks, complete or with one stack missing
OneDropped(S) == {S} \cup {S \ {x} : x \in S}

CoresIdle ==
    /\ nb_of_cores = 1
    /\ args_openmp = 0
    /\ args_nipype = 0
    /\ openmp_nb_of_cores = 0
    /\ nipype_nb_of_cores = 0
    /\ warned = FALSE
    /\ cores_pc = "idle"

\* no batch is running
BatchIdle ==
    /\ participant_label = <<>>
    /\ participants_params = <<>>
    /\ sub_i = 0
    /\ sr_i = 0
    /\ mains = <<>>
    /\ skipped = <<>>
    /\ exit_code = -1
    /\ batch_pc = "idle"

\* the class attributes of AnatomicalPipeline before __init__ (None, "01")
NoPipeline ==
    [subject |-> <<>>, session |-> <<>>, srID |-> <<"0", "1">>,
     p_stacks_order |-> <<>>, order_is_none |-> TRUE,
     use_manual_masks |-> FALSE]

\* nothing has been built, run or written
WfEmpty ==
    /\ wf_nodes = {}
    /\ wf_edges = {}
    /\ outputnode_fields = {}
    /\ substitutions = <<>>
    /\ in_dict = [run_order |-> <<>>, order_is_none |-> TRUE]
    /\ node_out = <<>>
    /\ current = "none"
    /\ executed = {}
    /\ failed_nodes = {}
    /\ p_do_nlm_denoising = FALSE
    /\ p_multi_parameters = FALSE
    /\ graph_written = FALSE
    /\ published = {}
    /\ sidecar = [written |-> FALSE, out_file |-> <<>>, run_order |-> <<>>,
                  order_is_none |-> TRUE]

WfIdle ==
    /\ pipeline = NoPipeline
    /\ WfEmpty
    /\ wf_pc = "idle"

StageIdle ==
    /\ interface = "none"
    /\ inputs_bids_dir = <<>>
    /\ getcwd = <<>>
    /\ input_images = <<>>
    /\ input_masks = <<>>
    /\ input_fields = <<>>
    /\ given_order = <<>>
    /\ stacks_order = <<>>
    /\ run_nb_images = <<>>
    /\ run_nb_masks = <<>>
    /\ run_nb_fields = <<>>
    /\ k = 0
    /\ calls = <<>>
    /\ cmd = <<>>
    /\ cwd_files = {}
    /\ outputs = [output_images |-> <<>>, output_fields |-> <<>>]
    /\ error = "none"
    /\ pc = "idle"

\* a node before its run: the inputs are set, nothing has been computed
StageReady ==
    /\ inputs_bids_dir = <<>>
    /\ getcwd = <<>>
    /\ stacks_order = given_order
    /\ run_nb_images = <<>>
    /\ run_nb_masks = <<>>
    /\ run_nb_fields = <<>>
    /\ k = 0
    /\ calls = <<>>
    /\ cmd = <<>>
    /\ cwd_files = {}
    /\ outputs = [output_images |-> <<>>, output_fields |-> <<>>]
    /\ error = "none"
    /\ pc = "start"

\* One node of a subject with the stacks S: the images, the masks and the
\* fields are listed in independent orders, a mask or a field may be absent,
\* and stacks_order is any sequence of distinct run indices (or is unset).
StageInit ==
    /\ CoresIdle
    /\ BatchIdle
    /\ WfIdle
    /\ interface \in Interfaces
    /\ \E S \in {T \in SUBSET Runs : Cardinality(T) <= MaxStacks} :
         /\ \E p \in PermsOf(S) :
               input_images = [i \in 1..Len(p) |-> ImageOf[p[i]]]
         /\ \E M \in OneDropped(S) \cup {{}} : \E p \in PermsOf(M) :
               input_masks = [i \in 1..Len(p) |-> MaskOf[p[i]]]
         /\ IF TakesField(interface)
            THEN \E F \in OneDropped(S) : \E p \in PermsOf(F) :
                    input_fields = [i \in 1..Len(p) |-> FieldOf[p[i]]]
            ELSE input_fields = <<>>
    /\ \E O \in {T \in SUBSET Runs : Cardinality(T) <= MaxStacks} :
          given_order \in PermsOf(O)
    /\ StageReady

\* the names of the stacks listed in runs, the one at position pos of the
\* list called which being written the way kind says
Named(runs, suffix, name, which, pos, kind) ==
    [i \in 1..Len(runs) |->
        IF which = name /\ pos = i
        THEN StackFile(RunPart(kind, runs[i]), suffix)
        ELSE StackFile(RunPart("plain", runs[i]), suffix)]

\* One node of a subject with few stacks where at most one file of one of
\* the lists is named differently: without the marker, with something that
\* is not a number after it, or with a leading zero.  stacks_order is unset
\* or lists the stacks as the images are listed.
MalformedInit ==
    /\ CoresIdle
    /\ BatchIdle
    /\ WfIdle
    /\ interface \in Interfaces
    /\ \E S \in {T \in SUBSET Runs : Cardinality(T) <= MaxMalformedStacks} :
       \E pI \in PermsOf(S) :
       \E pM \in PermsOf(S) \cup {<<>>} :
       \E pF \in IF TakesField(interface) THEN PermsOf(S) ELSE {<<>>} :
       \E which \in {"none", "images", "masks", "fields"} :
       \E pos \in 1..MaxMalformedStacks :
       \E kind \in WellFormedKinds \cup MalformedKinds :
          /\ which = "none"   => pos = 1 /\ kind = "plain"
          /\ which # "none"   => kind # "plain"
          /\ which = "images" => pos <= Len(pI)
          /\ which = "masks"  => pos <= Len(pM)
          /\ which = "fields" => pos <= Len(pF)
          /\ input_images = Named(pI, ImageSuffix, "images", which, pos, kind)
          /\ input_masks  = Named(pM, MaskSuffix, "masks", which, pos, kind)
          /\ input_fields = Named(pF, FieldSuffix, "fields", which, pos, kind)
          /\ given_order \in {pI, <<>>}
    /\ StageReady

StageNext ==
    \/ RunInterfaceBegin
    \/ RunInterfaceIter
    \/ RunInterfaceEnd
    \/ ListOutputs

Spec == StageInit /\ [][StageNext]_vars

SpecMalformed == MalformedInit /\ [][StageNext]_vars

CoresInit ==
    /\ StageIdle
    /\ BatchIdle
    /\ WfIdle
    /\ nb_of_cores \in 1..MaxCores
    /\ args_openmp \in 0..MaxRequested
    /\ args_nipype \in 0..MaxRequested
    /\ openmp_nb_of_cores = args_openmp
    /\ nipype_nb_of_cores = args_nipype
    /\ warned = FALSE
    /\ cores_pc = "args"

\* __main__, lines 214-219: the call of check_and_return_valid_nb_of_cores
ResolveCores ==
    /\ cores_pc = "args"
    /\ LET r == check_and_return_valid_nb_of_cores(args_openmp, args_nipype,
                                                    nb_of_cores)
       IN  /\ openmp_nb_of_cores' = r.openmp
           /\ nipype_nb_of_cores' = r.nipype
           /\ warned' = r.warned
           /\ cores_pc' = IF r.raised THEN "ZeroDivisionError" ELSE "resolved"
    /\ UNCHANGED <<nb_of_cores, args_openmp, args_nipype>>
    /\ UNCHANGED <<stage_vars, batch_vars, wf_vars>>

CoresNext == ResolveCores

SpecCores == CoresInit /\ [][CoresNext]_vars

(***************************************************************************)
(* pymialsrtk/pipelines/anatomical/srr.py : AnatomicalPipeline.__init__    *)
(***************************************************************************)
\* the parameters of __init__ after self
InitParams == <<"bids_dir", "output_dir", "subject", "p_stacks_order", "srID",
                "session", "paramTV", "use_manual_masks">>

\* the parameters of __init__ that have no default value
InitRequired == 5

\* a stacksOrder that is None, and one that is the list l
NoneOrder == [none |-> TRUE, list |-> <<>>]
ListOrder(l) == [none |-> FALSE, list |-> l]

\* a session that is None
NoSession == <<>>

\* AnatomicalPipeline(*args): Python binds the positional arguments to the
\* parameters in order and raises TypeError when there are more arguments
\* than parameters or when a parameter without default gets none.
AnatomicalPipeline_init(args) ==
    IF Len(args) > Len(InitParams) \/ Len(args) < InitRequired
    THEN [raised |-> "TypeError", self |-> NoPipeline]
    ELSE [raised |-> "none",
          self |-> [subject |-> args[3],
                    session |-> IF Len(args) >= 6 THEN args[6] ELSE NoSession,
                    srID |-> args[5],
                    p_stacks_order |-> args[4].list,
                    order_is_none |-> args[4].none,
                    use_manual_masks |->
                        IF Len(args) >= 8 THEN args[8] ELSE FALSE]]

(***************************************************************************)
(* srr.py : the graph assembled by AnatomicalPipeline.create_workflow      *)
(***************************************************************************)
\* the node bound to the Python variable brainMask (lines 221 and 238)
BrainMaskNode(use_manual_masks) ==
    IF use_manual_masks THEN "brain_masks_bypass"
    ELSE "Multiple_Brain_extraction"

\* the interface class each node of the pipeline wraps (lines 197-327)
NodeInterface(n) ==
    CASE n = "data_grabber" -> "DataGrabber"
      [] n = "brain_masks_bypass" -> "IdentityInterface"
      [] n = "Multiple_Brain_extraction" -> "MultipleBrainExtraction"
      [] n = "nlmDenoise" -> "MultipleBtkNLMDenoising"
      [] n \in {"srtkCorrectSliceIntensity01_nlm",
                "srtkCorrectSliceIntensity01",
                "srtkCorrectSliceIntensity02_nlm",
                "srtkCorrectSliceIntensity02"}
            -> "MultipleMialsrtkCorrectSliceIntensity"
      [] n = "srtkSliceBySliceN4BiasFieldCorrection"
            -> "MultipleMialsrtkSliceBySliceN4BiasFieldCorrection"
      [] n = "srtkSliceBySliceCorrectBiasField"
            -> "MultipleMialsrtkSliceBySliceCorrectBiasField"
      [] n \in {"srtkIntensityStandardization01",
                "srtkIntensityStandardization01_nlm",
                "srtkIntensityStandardization02",
                "srtkIntensityStandardization02_nlm"}
            -> "MialsrtkIntensityStandardization"
      [] n \in {"srtkHistogramNormalization",
                "srtkHistogramNormalization_nlm"}
            -> "MialsrtkHistogramNormalization"
      [] n = "srtkMaskImage01" -> "MultipleMialsrtkMaskImage"
      [] n = "srtkImageReconstruction" -> "MialsrtkImageReconstruction"
      [] n = "srtkTVSuperResolution" -> "MialsrtkTVSuperResolution"
      [] n = "srtkRefineHRMaskByIntersection"
            -> "MialsrtkRefineHRMaskByIntersection"
      [] n = "srtkN4BiasFieldCorrection" -> "MialsrtkN4BiasFieldCorrection"
      [] n = "srtkMaskImage02" -> "MialsrtkMaskImage"
      [] n = "data_sinker" -> "DataSink"
      [] OTHER -> "none"

\* the nodes whose input_masks is connected to brainMask.masks
\* (lines 355-394, in the order of the connect calls)
MaskedNodes ==
    {"srtkCorrectSliceIntensity01_nlm", "srtkCorrectSliceIntensity01",
     "srtkSliceBySliceN4BiasFieldCorrection",
     "srtkSliceBySliceCorrectBiasField", "srtkCorrectSliceIntensity02",
     "srtkCorrectSliceIntensity02_nlm", "srtkHistogramNormalization",
     "srtkHistogramNormalization_nlm", "srtkMaskImage01",
     "srtkImageReconstruction", "srtkTVSuperResolution",
     "srtkRefineHRMaskByIntersection"}

\* the connect calls that follow one processed collection from node to node
ImageEdges ==
    {<<"data_grabber", "T2ws", "nlmDenoise", "input_images">>,
     <<"nlmDenoise", "output_images",
       "srtkCorrectSliceIntensity01_nlm", "input_images">>,
     <<"data_grabber", "T2ws", "srtkCorrectSliceIntensity01", "input_images">>,
     <<"srtkCorrectSliceIntensity01_nlm", "output_images",
       "srtkSliceBySliceN4BiasFieldCorrection", "input_images">>,
     <<"srtkCorrectSliceIntensity01", "output_images",
       "srtkSliceBySliceCorrectBiasField", "input_images">>,
     <<"srtkSliceBySliceN4BiasFieldCorrection", "output_fields",
       "srtkSliceBySliceCorrectBiasField", "input_fields">>,
     <<"srtkSliceBySliceCorrectBiasField", "output_images",
       "srtkCorrectSliceIntensity02", "input_images">>,
     <<"srtkSliceBySliceN4BiasFieldCorrection", "output_images",
       "srtkCorrectSliceIntensity02_nlm", "input_images">>,
     <<"srtkCorrectSliceIntensity02", "output_images",
       "srtkIntensityStandardization01", "input_images">>,
     <<"srtkCorrectSliceIntensity02_nlm", "output_images",
       "srtkIntensityStandardization01_nlm", "input_images">>,
     <<"srtkIntensityStandardization01", "output_images",
       "srtkHistogramNormalization", "input_images">>,
     <<"srtkIntensityStandardization01_nlm", "output_images",
       "srtkHistogramNormalization_nlm", "input_images">>,
     <<"srtkHistogramNormalization", "output_images",
       "srtkIntensityStandardization02", "input_images">>,
     <<"srtkHistogramNormalization_nlm", "output_images",
       "srtkIntensityStandardization02_nlm", "input_images">>,
     <<"srtkIntensityStandardization02_nlm", "output_images",
       "srtkMaskImage01", "input_images">>,
     <<"srtkMaskImage01", "output_images",
       "srtkImageReconstruction", "input_images">>,
     <<"srtkIntensityStandardization02", "output_images",
       "srtkTVSuperResolution", "input_images">>,
     <<"srtkImageReconstruction", "output_transforms",
       "srtkTVSuperResolution", "input_transforms">>,
     <<"srtkImageReconstruction", "output_sdi",
       "srtkTVSuperResolution", "input_sdi">>,
     <<"srtkIntensityStandardization02", "output_images",
       "srtkRefineHRMaskByIntersection", "input_images">>,
     <<"srtkImageReconstruction", "output_transforms",
       "srtkRefineHRMaskByIntersection", "input_transforms">>,
     <<"srtkTVSuperResolution", "output_sr",
       "srtkRefineHRMaskByIntersection", "input_sr">>,
     <<"srtkTVSuperResolution", "output_sr",
       "srtkN4BiasFieldCorrection", "input_image">>,
     <<"srtkRefineHRMaskByIntersection", "output_srmask",
       "srtkN4BiasFieldCorrection", "input_mask">>,
     <<"srtkTVSuperResolution", "output_sr", "srtkMaskImage02", "in_file">>,
     <<"srtkRefineHRMaskByIntersection", "output_srmask",
       "srtkMaskImage02", "in_mask">>}

\* the connect calls into the data sink that do not depend on the masks
SinkEdges ==
    {<<"srtkIntensityStandardization02", "output_images",
       "data_sinker", "anat.@LRsPreproc">>,
     <<"srtkMaskImage01", "output_images", "data_sinker", "anat.@LRsDenoised">>,
     <<"srtkImageReconstruction", "output_transforms",
       "data_sinker", "xfm.@transforms">>,
     <<"srtkImageReconstruction", "output_sdi", "data_sinker", "anat.@SDI">>,
     <<"srtkN4BiasFieldCorrection", "output_image", "data_sinker", "anat.@SR">>,
     <<"srtkRefineHRMaskByIntersection", "output_srmask",
       "data_sinker", "anat.@SRmask">>}

\* a variant that publishes brainMask.masks whatever the source of the masks
SrrEdgesMasksAlwaysPublished(use_manual_masks) ==
    LET brainMask == BrainMaskNode(use_manual_masks)
    IN  (IF ~use_manual_masks
         THEN {<<"data_grabber", "T2ws", brainMask, "input_images">>}
         ELSE {<<"data_grabber", "masks", brainMask, "masks">>})
        \cup ImageEdges
        \cup {<<brainMask, "masks", n, "input_masks">> : n \in MaskedNodes}
        \cup {<<brainMask, "masks", "data_sinker", "anat.@LRmasks">>}
        \cup SinkEdges

\* every wf.connect call of create_workflow (lines 346-402 and 459-468)
SrrEdges(use_manual_masks) ==
    LET brainMask == BrainMaskNode(use_manual_masks)
    IN  (IF ~use_manual_masks
         THEN {<<"data_grabber", "T2ws", brainMask, "input_images">>}
         ELSE {<<"data_grabber", "masks", brainMask, "masks">>})
        \cup ImageEdges
        \cup {<<brainMask, "masks", n, "input_masks">> : n \in MaskedNodes}
        \cup (IF ~use_manual_masks
              THEN {<<brainMask, "masks", "data_sinker", "anat.@LRmasks">>}
              ELSE {})
        \cup SinkEdges

\* Workflow.connect adds the two nodes of every connection to the graph
NodesOf(edges) == {e[1] : e \in edges} \cup {e[3] : e \in edges}

(***************************************************************************)
(* docker/bidsapp/run.py : main and the batch loop of __main__             *)
(***************************************************************************)
\* largest number of participant labels on the command line
MaxLabels == 2
\* largest number of configurations listed for one subject
MaxConfigs == 2

SubPrefix == <<"s", "u", "b", "-">>
SesPrefix == <<"s", "e", "s", "-">>

Labels == {<<"0", "1">>, <<"0", "2">>}
SrIds == {<<"1">>, <<"2">>}

\* one dict of the parameter file: the keys 'sr-id' and 'stacksOrder' may be
\* absent, 'session', 'paramTV', 'skip_svr', 'do_refine_hr_mask' are absent
Configs ==
    {[has_sr_id |-> TRUE, sr_id |-> id, stacksOrder |-> o] :
        id \in SrIds, o \in {NoneOrder, ListOrder(<<1, 0, 2>>)}}
    \cup
    {[has_sr_id |-> FALSE, sr_id |-> <<>>, stacksOrder |-> o] :
        o \in {NoneOrder, ListOrder(<<1, 0, 2>>)}}

\* the sequences over S of length at most n
SeqsUpTo(S, n) == UNION {[1..m -> S] : m \in 0..n}

\* the positional arguments main() hands to AnatomicalPipeline (lines 188-197)
MainArgs(bids_dir, output_dir, subject, p_stacksOrder, session, paramTV, srID, masks_derivatives_dir, skip_svr, do_refine_hr_mask) ==
    <<bids_dir, output_dir, SubPrefix \o subject, p_stacksOrder, srID,
      IF session = NoSession THEN NoSession ELSE SesPrefix \o session,
      paramTV, masks_derivatives_dir, skip_svr, do_refine_hr_mask>>

\* main(): the ways the call for one configuration can end.  The pipeline is
\* constructed first; create_workflow() evaluates len(self.p_stacks_order);
\* run() reads self.number_of_cores, which is never assigned, when
\* number_of_cores is not 1; the workflow itself ends well or raises.
MainOutcomes(sub, sr_params, number_of_cores) ==
    LET made == AnatomicalPipeline_init(
                   MainArgs("bids_dir", "output_dir", sub,
                            sr_params.stacksOrder, NoSession, "None",
                            sr_params.sr_id, "", FALSE, FALSE))
    IN  IF made.raised # "none"
        THEN {[raised |-> made.raised, created |-> FALSE, run_order |-> NoneOrder]}
        ELSE IF made.self.order_is_none
        THEN {[raised |-> "TypeError", created |-> FALSE, run_order |-> NoneOrder]}
        ELSE IF number_of_cores # 1
        THEN {[raised |-> "AttributeError", created |-> TRUE,
               run_order |-> NoneOrder]}
        ELSE {[raised |-> r, created |-> TRUE,
               run_order |-> IF r = "none"
                             THEN ListOrder(made.self.p_stacks_order)
                             ELSE NoneOrder] :
                 r \in {"none", "RuntimeError"}}

\* a variant whose else branch only prints the message: the script ends
\* with status 0
BatchNoLabelStatus0 ==
    /\ batch_pc = "labels"
    /\ ~(Len(participant_label) >= 1)
    /\ exit_code' = 0
    /\ batch_pc' = "exited"
    /\ UNCHANGED <<participant_label, participants_params, sub_i, sr_i,
                   mains, skipped>>
    /\ UNCHANGED <<cores_vars, stage_vars, wf_vars>>

\* line 232 with an empty list of labels: the else branch, sys.exit(2)
BatchNoLabel ==
    /\ batch_pc = "labels"
    /\ ~(Len(participant_label) >= 1)
    /\ exit_code' = 2
    /\ batch_pc' = "exited"
    /\ UNCHANGED <<participant_label, participants_params, sub_i, sr_i,
                   mains, skipped>>
    /\ UNCHANGED <<cores_vars, stage_vars, wf_vars>>

\* line 232 with at least one label: the loop over the labels starts
BatchEnter ==
    /\ batch_pc = "labels"
    /\ Len(participant_label) >= 1
    /\ sub_i' = 1
    /\ sr_i' = 1
    /\ batch_pc' = "loop"
    /\ UNCHANGED <<participant_label, participants_params, mains, skipped,
                   exit_code>>
    /\ UNCHANGED <<cores_vars, stage_vars, wf_vars>>

\* the label at hand is no key of the parameter file, or its list is done
BatchNextSubject ==
    /\ batch_pc = "loop"
    /\ sub_i <= Len(participant_label)
    /\ LET sub == participant_label[sub_i]
       IN  \/ sub \notin DOMAIN participants_params
           \/ /\ sub \in DOMAIN participants_params
              /\ sr_i > Len(participants_params[sub])
    /\ sub_i' = sub_i + 1
    /\ sr_i' = 1
    /\ UNCHANGED <<participant_label, participants_params, mains, skipped,
                   exit_code, batch_pc>>
    /\ UNCHANGED <<cores_vars, stage_vars, wf_vars>>

\* lines 247-249: a configuration without 'sr-id' is reported and passed over
BatchSkipConfig ==
    /\ batch_pc = "loop"
    /\ sub_i <= Len(participant_label)
    /\ LET sub == participant_label[sub_i]
       IN  /\ sub \in DOMAIN participants_params
           /\ sr_i <= Len(participants_params[sub])
           /\ ~participants_params[sub][sr_i].has_sr_id
           /\ skipped' = Append(skipped, [sub |-> sub, at |-> sr_i])
    /\ sr_i' = sr_i + 1
    /\ UNCHANGED <<participant_label, participants_params, sub_i, mains,
                   exit_code, batch_pc>>
    /\ UNCHANGED <<cores_vars, stage_vars, wf_vars>>

\* lines 251-261: main() is called; an exception it raises is caught nowhere
\* and ends the process with status 1
BatchMain ==
    /\ batch_pc = "loop"
    /\ sub_i <= Len(participant_label)
    /\ LET sub == participant_label[sub_i]
       IN  /\ sub \in DOMAIN participants_params
           /\ sr_i <= Len(participants_params[sub])
           /\ participants_params[sub][sr_i].has_sr_id
           /\ \E res \in MainOutcomes(sub, participants_params[sub][sr_i],
                                      nipype_nb_of_cores) :
                 /\ mains' = Append(mains,
                        [sub |-> sub, at |-> sr_i,
                         sr_id |-> participants_params[sub][sr_i].sr_id,
                         stacksOrder |->
                             participants_params[sub][sr_i].stacksOrder,
                         raised |-> res.raised,
                         sidecar_order |-> res.run_order])
                 /\ IF res.raised = "none"
                    THEN /\ sr_i' = sr_i + 1
                         /\ UNCHANGED <<exit_code, batch_pc>>
                    ELSE /\ exit_code' = 1
                         /\ batch_pc' = "exited"
                         /\ UNCHANGED sr_i
    /\ UNCHANGED <<participant_label, participants_params, sub_i, skipped>>
    /\ UNCHANGED <<cores_vars, stage_vars, wf_vars>>

\* the loop over the labels is over: the script ends, status 0
BatchEnd ==
    /\ batch_pc = "loop"
    /\ sub_i > Len(participant_label)
    /\ exit_code' = 0
    /\ batch_pc' = "exited"
    /\ UNCHANGED <<participant_label, participants_params, sub_i, sr_i,
                   mains, skipped>>
    /\ UNCHANGED <<cores_vars, stage_vars, wf_vars>>

\* The script at line 232: the core counts are resolved (4 cores, no count
\* requested), the parameter file is loaded, any list of labels was given.
BatchInit ==
    /\ StageIdle
    /\ WfIdle
    /\ nb_of_cores = 4
    /\ args_openmp = 0
    /\ args_nipype = 0
    /\ openmp_nb_of_cores =
          check_and_return_valid_nb_of_cores(0, 0, 4).openmp
    /\ nipype_nb_of_cores =
          check_and_return_valid_nb_of_cores(0, 0, 4).nipype
    /\ warned = FALSE
    /\ cores_pc = "resolved"
    /\ participant_label \in SeqsUpTo(Labels, MaxLabels)
    /\ \E D \in SUBSET Labels :
          participants_params \in [D -> SeqsUpTo(Configs, MaxConfigs)]
    /\ sub_i = 0
    /\ sr_i = 0
    /\ mains = <<>>
    /\ skipped = <<>>
    /\ exit_code = -1
    /\ batch_pc = "labels"

BatchNext ==
    \/ BatchNoLabel
    \/ BatchEnter
    \/ BatchNextSubject
    \/ BatchSkipConfig
    \/ BatchMain
    \/ BatchEnd

SpecBatch == BatchInit /\ [][BatchNext]_vars

(***************************************************************************)
(* srr.py : names, create_workflow and run                                 *)
(***************************************************************************)
\* os.path.join of two components
Join(a, b) == a \o <<"/">> \o b

\* the directory names of lines 141-158 and of the data sink keys;
\* pymialsrtk stands for '-'.join(["pymialsrtk", __version__])
Dir ==
    [output |-> <<"o", "u", "t">>,
     nipype |-> <<"n", "i", "p", "y", "p", "e">>,
     pymialsrtk |-> <<"p", "y", "m", "i", "a", "l", "s", "r", "t", "k", "-",
                      "2">>,
     anat |-> <<"a", "n", "a", "t">>,
     xfm |-> <<"x", "f", "m">>,
     rec |-> <<"r", "e", "c", "-">>]


\* the sessions of the modelled data set: none, or 'ses-01'
Sessions == {NoSession, SesPrefix \o <<"0", "1">>}

\* sub_ses (lines 137-139)
SubSesOf(p) ==
    IF p.session = NoSession THEN p.subject
    ELSE p.subject \o U \o p.session

\* wf_base_dir and final_res_dir (lines 141-158)
WfBaseDir(p) ==
    IF p.session = NoSession
    THEN Join(Join(Join(Dir.output, Dir.nipype), p.subject), Dir.rec \o p.srID)
    ELSE Join(Join(Join(Join(Dir.output, Dir.nipype), p.subject), p.session),
              Dir.rec \o p.srID)

FinalResDir(p) ==
    IF p.session = NoSession
    THEN Join(Join(Dir.output, Dir.pymialsrtk), p.subject)
    ELSE Join(Join(Join(Dir.output, Dir.pymialsrtk), p.subject), p.session)

\* sub_ses + '_run-' + str(stack)
RunName(p, stack) == SubSesOf(p) \o U \o RunMarker \o Str(stack)

\* str(len(self.p_stacks_order)) + 'V'
NbViews(p) == Str(Len(p.p_stacks_order)) \o <<"V">>

\* the literal parts of the file names of lines 343 and 405-457, and the
\* default out_postfix of MultipleBrainExtraction
Part ==
    [nlm_chain |-> T2w \o PostfixNlm \o PostfixUni \o PostfixBcorr
                      \o PostfixHistnorm,
     plain_chain |-> T2w \o PostfixUni \o PostfixBcorr \o PostfixHistnorm,
     brainMask |-> <<"_", "b", "r", "a", "i", "n", "M", "a", "s", "k">>,
     transform |-> <<"_", "t", "r", "a", "n", "s", "f", "o", "r", "m", "_">>,
     txt |-> <<".", "t", "x", "t">>,
     preprocSDI |-> <<"_", "d", "e", "s", "c", "-", "p", "r", "e", "p", "r",
                      "o", "c", "S", "D", "I", "_", "T", "2", "w">>,
     brain_mask |-> <<"_", "d", "e", "s", "c", "-", "b", "r", "a", "i", "n",
                      "_", "m", "a", "s", "k">>,
     preprocSR |-> <<"_", "d", "e", "s", "c", "-", "p", "r", "e", "p", "r",
                     "o", "c", "S", "R", "_", "T", "2", "w">>,
     xfm |-> <<"_", "T", "2", "w", "_", "f", "r", "o", "m", "-", "o", "r",
               "i", "g", "i", "n", "_", "t", "o", "-", "S", "D", "I", "_",
               "m", "o", "d", "e", "-", "i", "m", "a", "g", "e", "_", "x",
               "f", "m">>,
     LRmask |-> <<"_", "L", "R", "m", "a", "s", "k">>,
     SDI |-> <<"S", "D", "I", "_">>,
     SRTV |-> <<"S", "R", "T", "V", "_">>,
     rad1 |-> <<"_", "r", "a", "d", "1">>,
     gbcorr |-> <<"_", "g", "b", "c", "o", "r", "r">>,
     srMask |-> <<"_", "s", "r", "M", "a", "s", "k">>,
     recSDI |-> <<"_", "r", "e", "c", "-", "S", "D", "I">>,
     recSR |-> <<"_", "r", "e", "c", "-", "S", "R">>,
     json |-> <<".", "j", "s", "o", "n">>,
     id |-> <<"_", "i", "d", "-">>]


\* '_id-' + str(self.srID)
IdPart(p) == Part.id \o p.srID

\* a variant that publishes the two preprocessed images of a stack under
\* one name
StackRulesOneTarget(p, stack) ==
    <<  <<RunName(p, stack) \o Part.nlm_chain \o NiiGz,
          RunName(p, stack) \o IdPart(p) \o Part.preprocSDI \o NiiGz>>,
        <<RunName(p, stack) \o Part.plain_chain \o NiiGz,
          RunName(p, stack) \o IdPart(p) \o Part.preprocSDI \o NiiGz>>  >>

\* the pairs appended for one stack by the loop of lines 408-437
StackRules(p, stack) ==
    <<  <<RunName(p, stack) \o Part.nlm_chain \o NiiGz,
          RunName(p, stack) \o IdPart(p) \o Part.preprocSDI \o NiiGz>>  >>
    \o (IF ~p.use_manual_masks
        THEN <<  <<RunName(p, stack) \o T2w \o Part.brainMask \o NiiGz,
                   RunName(p, stack) \o Part.brain_mask \o NiiGz>>  >>
        ELSE <<>>)
    \o <<  <<RunName(p, stack) \o Part.plain_chain \o NiiGz,
             RunName(p, stack) \o IdPart(p) \o Part.preprocSR \o NiiGz>>,
           <<RunName(p, stack) \o Part.nlm_chain \o Part.transform \o NbViews(p) \o Part.txt,
             RunName(p, stack) \o IdPart(p) \o Part.xfm \o Part.txt>>,
           <<RunName(p, stack) \o Part.plain_chain \o Part.LRmask \o NiiGz,
             RunName(p, stack) \o IdPart(p) \o T2w \o Part.brain_mask \o NiiGz>>  >>

RECURSIVE RulesOfStacks(_, _)
RulesOfStacks(p, stacks) ==
    IF Len(stacks) = 0 THEN <<>>
    ELSE StackRules(p, Head(stacks)) \o RulesOfStacks(p, Tail(stacks))

\* names the reconstruction and postprocessing stages give their outputs,
\* as the sources of the pairs of lines 439-455 spell them
ExternalName(p) ==
    [sdi    |-> Part.SDI \o SubSesOf(p) \o U \o NbViews(p) \o Part.rad1
                   \o NiiGz,
     srtv   |-> Part.SRTV \o SubSesOf(p) \o U \o NbViews(p) \o Part.rad1
                   \o NiiGz,
     sr     |-> Part.SRTV \o SubSesOf(p) \o U \o NbViews(p) \o Part.rad1
                   \o Part.gbcorr \o NiiGz,
     srMask |-> SubSesOf(p) \o Part.plain_chain \o Part.srMask \o NiiGz]

TransformName(p, in_file) ==
    split_filename(in_file).name \o Part.transform \o NbViews(p) \o Part.txt

\* datasink.inputs.substitutions (lines 405-457)
Substitutions(p) ==
    RulesOfStacks(p, p.p_stacks_order)
    \o <<  <<ExternalName(p).sdi,
             SubSesOf(p) \o Part.recSDI \o IdPart(p) \o T2w \o NiiGz>>,
           <<ExternalName(p).sr,
             SubSesOf(p) \o Part.recSR \o IdPart(p) \o T2w \o NiiGz>>,
           <<ExternalName(p).srMask,
             SubSesOf(p) \o Part.recSR \o IdPart(p) \o T2w \o Part.brain_mask
                 \o NiiGz>>  >>

\* dictsink.inputs.out_file (line 343)
DictsinkOutFile(p) ==
    Join(Join(FinalResDir(p), Dir.anat),
         SubSesOf(p) \o Part.recSR \o IdPart(p) \o T2w \o Part.json)

\* run indices of the stacks of the modelled data set, in ascending order
DataRuns == <<0, 1>>

\* what the data grabber finds (field_template of lines 204-220 and 228-236,
\* sort_filelist = True): the T2w stacks and the manual masks of sub_ses
DataFiles(p, suffix) ==
    [i \in DOMAIN DataRuns |-> RunName(p, DataRuns[i]) \o suffix \o NiiGz]

\* the stack orders a pipeline is constructed with: None, or a list of
\* distinct run indices of the data set
PipelineOrders ==
    {NoneOrder} \cup
    {ListOrder(o) : o \in UNION {PermsOf(S) :
                         S \in SUBSET {DataRuns[i] : i \in DOMAIN DataRuns}}}

\* AnatomicalPipeline.create_workflow.  len(self.p_stacks_order) (line 335)
\* raises TypeError for None, before any connect call.
CreateWorkflow ==
    /\ wf_pc = "constructed"
    /\ IF pipeline.order_is_none
       THEN /\ wf_pc' = "TypeError"
            /\ UNCHANGED <<wf_nodes, wf_edges, substitutions, in_dict>>
       ELSE /\ wf_pc' = "created"
            /\ wf_edges' = SrrEdges(pipeline.use_manual_masks)
            /\ wf_nodes' = NodesOf(SrrEdges(pipeline.use_manual_masks))
            /\ substitutions' = Substitutions(pipeline)
            /\ in_dict' = [run_order |-> pipeline.p_stacks_order,
                           order_is_none |-> FALSE]
    /\ UNCHANGED <<pipeline, outputnode_fields, node_out, current, executed,
                   failed_nodes, p_do_nlm_denoising, p_multi_parameters,
                   graph_written, published, sidecar>>
    /\ UNCHANGED <<cores_vars, stage_vars, batch_vars>>

\* AnatomicalPipeline.run up to the call of self.wf.run.  The branch of
\* number_of_cores != 1 reads self.number_of_cores, an attribute that is
\* never assigned: AttributeError.
RunBegin ==
    /\ wf_pc = "created"
    /\ \E number_of_cores \in {1, 2} :
          wf_pc' = IF number_of_cores # 1 THEN "AttributeError" ELSE "running"
    /\ UNCHANGED <<pipeline, wf_nodes, wf_edges, outputnode_fields,
                   substitutions, in_dict, node_out, current, executed,
                   failed_nodes, p_do_nlm_denoising, p_multi_parameters,
                   graph_written, published, sidecar>>
    /\ UNCHANGED <<cores_vars, stage_vars, batch_vars>>

\* ---- the execution engine (nipype, Linear plugin) ----
\* the nodes in the order create_workflow creates them (lines 197-327)
NodeOrder ==
    <<"data_grabber", "brain_masks_bypass", "Multiple_Brain_extraction",
      "nlmDenoise", "srtkCorrectSliceIntensity01_nlm",
      "srtkCorrectSliceIntensity01", "srtkSliceBySliceN4BiasFieldCorrection",
      "srtkSliceBySliceCorrectBiasField", "srtkCorrectSliceIntensity02_nlm",
      "srtkCorrectSliceIntensity02", "srtkIntensityStandardization01",
      "srtkIntensityStandardization01_nlm", "srtkHistogramNormalization",
      "srtkHistogramNormalization_nlm", "srtkIntensityStandardization02",
      "srtkIntensityStandardization02_nlm", "srtkMaskImage01",
      "srtkImageReconstruction", "srtkTVSuperResolution",
      "srtkRefineHRMaskByIntersection", "srtkN4BiasFieldCorrection",
      "srtkMaskImage02", "data_sinker">>

\* The engine runs the nodes one at a time, in a topological order of the
\* graph.  Nodes that do not depend on each other share no state (each reads
\* its bound inputs and writes its own directory), so the model lets the
\* runnable node that was created first run next.
Ready(n) ==
    LET Position(m) == CHOOSE i \in DOMAIN NodeOrder : NodeOrder[i] = m
        \* every node m is connected from has run, m has not
        Runnable(m) ==
            /\ m \in wf_nodes \ executed
            /\ \A e \in wf_edges : e[3] = m => e[1] \in executed
    IN  /\ wf_pc = "running"
        /\ current = "none"
        /\ Runnable(n)
        /\ \A m \in wf_nodes : Runnable(m) => Position(n) <= Position(m)

\* the value bound to an input port: the output it is connected from, or
\* the empty list of an input that is left undefined
In(n, port) ==
    LET es == {e \in wf_edges : e[3] = n /\ e[4] = port}
    IN  IF es = {} THEN <<>>
        ELSE LET e == CHOOSE x \in es : TRUE
             IN  node_out[e[1]][e[2]]

\* the nodes whose outputs a node that has not run yet still reads
Live(done) == {n \in done : \E e \in wf_edges : e[1] = n /\ e[3] \notin done}

\* the node n has run and reported out; failed tells whether one of its
\* external transforms failed
Ran(n, out, failed) ==
    /\ executed' = executed \cup {n}
    /\ node_out' = [m \in Live(executed \cup {n}) |->
                       IF m = n THEN out ELSE node_out[m]]
    /\ failed_nodes' = IF failed THEN failed_nodes \cup {n} ELSE failed_nodes
    /\ UNCHANGED <<pipeline, wf_nodes, wf_edges, outputnode_fields,
                   substitutions, in_dict, p_do_nlm_denoising, p_multi_parameters,
                   graph_written, wf_pc>>
    /\ UNCHANGED <<cores_vars, batch_vars>>

\* DataGrabber 'data_grabber'
ExecuteDataGrabber ==
    /\ Ready("data_grabber")
    /\ Ran("data_grabber",
           [T2ws |-> DataFiles(pipeline, ImageSuffix),
            masks |-> IF pipeline.use_manual_masks THEN DataFiles(pipeline, MaskSuffix)
                      ELSE <<>>],
           FALSE)
    /\ UNCHANGED <<current, published, sidecar>>
    /\ UNCHANGED stage_vars

\* IdentityInterface 'brain_masks_bypass'
ExecuteBypass ==
    /\ Ready("brain_masks_bypass")
    /\ Ran("brain_masks_bypass",
           [masks |-> In("brain_masks_bypass", "masks")], FALSE)
    /\ UNCHANGED <<current, published, sidecar>>
    /\ UNCHANGED stage_vars

\* MultipleBrainExtraction: one BrainExtraction per input image, whose
\* _run_interface catches the exception of a failing extraction; the masks
\* reported are glob('*.nii.gz') of the node directory.
ExecuteBrainExtraction ==
    LET n == "Multiple_Brain_extraction"
        images == In(n, "input_images")
    IN  /\ Ready(n)
        /\ \E ok \in [DOMAIN images -> TransformOutcomes] :
           \E ms \in PermsOf({OutFile(images[i], Part.brainMask) :
                                 i \in {j \in DOMAIN images : ok[j]}}) :
              Ran(n, [masks |-> ms], \E i \in DOMAIN images : ~ok[i])
        /\ UNCHANGED <<current, published, sidecar>>
        /\ UNCHANGED stage_vars

\* MialsrtkIntensityStandardization: one command over all the input images,
\* whose failure is caught; the images reported are glob('*.nii.gz').
ExecuteIntensityStandardization(n) ==
    LET images == In(n, "input_images")
    IN  /\ Ready(n)
        /\ NodeInterface(n) = "MialsrtkIntensityStandardization"
        /\ \E ok \in TransformOutcomes :
           \E ims \in PermsOf(IF ok
                              THEN {OutFile(images[i], <<>>) :
                                       i \in DOMAIN images}
                              ELSE {}) :
              Ran(n, [output_images |-> ims], ~ok)
        /\ UNCHANGED <<current, published, sidecar>>
        /\ UNCHANGED stage_vars

\* a node of one of the multi-stack interfaces starts: its inputs are bound
\* from the connections, stacks_order is the one of the pipeline
StartNode(n) ==
    /\ Ready(n)
    /\ NodeInterface(n) \in Interfaces
    /\ pc = "idle"
    /\ current' = n
    /\ interface' = NodeInterface(n)
    /\ input_images' = In(n, "input_images")
    /\ input_masks' = In(n, "input_masks")
    /\ input_fields' = In(n, "input_fields")
    /\ given_order' = pipeline.p_stacks_order
    /\ stacks_order' = pipeline.p_stacks_order
    /\ pc' = "start"
    /\ UNCHANGED <<inputs_bids_dir, getcwd, run_nb_images, run_nb_masks,
                   run_nb_fields, k, calls, cmd, cwd_files, outputs, error>>
    /\ UNCHANGED <<pipeline, wf_nodes, wf_edges, outputnode_fields,
                   substitutions, in_dict, node_out, executed, failed_nodes,
                   p_do_nlm_denoising, p_multi_parameters,
                   graph_written, published, sidecar, wf_pc>>
    /\ UNCHANGED <<cores_vars, batch_vars>>

\* the node returned from _list_outputs: the engine stores its outputs
FinishNode ==
    /\ wf_pc = "running"
    /\ current # "none"
    /\ pc = "done"
    /\ executed' = executed \cup {current}
    /\ node_out' = [m \in Live(executed \cup {current}) |->
                       IF m = current THEN outputs ELSE node_out[m]]
    /\ failed_nodes' = IF \E i \in 1..Len(calls) : ~calls[i].ok
                       THEN failed_nodes \cup {current} ELSE failed_nodes
    /\ current' = "none"
    /\ interface' = "none"
    /\ input_images' = <<>>
    /\ input_masks' = <<>>
    /\ input_fields' = <<>>
    /\ given_order' = <<>>
    /\ stacks_order' = <<>>
    /\ run_nb_images' = <<>>
    /\ run_nb_masks' = <<>>
    /\ run_nb_fields' = <<>>
    /\ k' = 0
    /\ calls' = <<>>
    /\ cmd' = <<>>
    /\ cwd_files' = {}
    /\ outputs' = [output_images |-> <<>>, output_fields |-> <<>>]
    /\ pc' = "idle"
    /\ UNCHANGED <<inputs_bids_dir, getcwd>>
    /\ UNCHANGED <<error, pipeline, wf_nodes, wf_edges, outputnode_fields,
                   substitutions, in_dict, p_do_nlm_denoising, p_multi_parameters,
                   graph_written, published,
                   sidecar, wf_pc>>
    /\ UNCHANGED <<cores_vars, batch_vars>>

\* _run_interface raised: the node crashes and, with
\* 'stop_on_first_crash': True (lines 178-187), wf.run() raises; run() does
\* not reach self.dictsink.run()
CrashNode ==
    /\ wf_pc = "running"
    /\ current # "none"
    /\ pc = "failed"
    /\ wf_pc' = "crashed"
    /\ UNCHANGED <<pipeline, wf_nodes, wf_edges, outputnode_fields,
                   substitutions, in_dict, node_out, current, executed,
                   failed_nodes, p_do_nlm_denoising, p_multi_parameters,
                   graph_written, published, sidecar>>
    /\ UNCHANGED <<cores_vars, stage_vars, batch_vars>>

\* The reconstruction and postprocessing nodes.  Their interfaces are not
\* part of the modelled sources; they are taken to produce the files whose
\* names the substitution pairs of lines 439-455 spell, and one transform
\* per input image.
ExternalOutputs(n) ==
    CASE n = "srtkImageReconstruction" ->
            [output_sdi |-> <<ExternalName(pipeline).sdi>>,
             output_transforms |->
                [i \in DOMAIN In(n, "input_images") |->
                    TransformName(pipeline, In(n, "input_images")[i])]]
      [] n = "srtkTVSuperResolution" ->
            [output_sr |-> <<ExternalName(pipeline).srtv>>]
      [] n = "srtkRefineHRMaskByIntersection" ->
            [output_srmask |-> <<ExternalName(pipeline).srMask>>]
      [] n = "srtkN4BiasFieldCorrection" ->
            [output_image |-> <<ExternalName(pipeline).sr>>]
      [] n = "srtkMaskImage02" ->
            [out_im_file |-> <<>>]

ExecuteExternal(n) ==
    /\ Ready(n)
    /\ n \in {"srtkImageReconstruction", "srtkTVSuperResolution",
              "srtkRefineHRMaskByIntersection", "srtkN4BiasFieldCorrection",
              "srtkMaskImage02"}
    /\ Ran(n, ExternalOutputs(n), FALSE)
    /\ UNCHANGED <<current, published, sidecar>>
    /\ UNCHANGED stage_vars

\* str.replace(old, new): every occurrence, from left to right
RECURSIVE ReplaceAll(_, _, _)
ReplaceAll(s, old, new) ==
    LET i == Find(s, old)
    IN  IF i = 0 THEN s
        ELSE SubSeq(s, 1, i - 1) \o new
             \o ReplaceAll(SubSeq(s, i + Len(old), Len(s)), old, new)

\* DataSink: "for oldval, newval in substitutions:
\*                pathstr = pathstr.replace(oldval, newval)"
RECURSIVE Substitute(_, _)
Substitute(path, rules) ==
    IF Len(rules) = 0 THEN path
    ELSE Substitute(ReplaceAll(path, Head(rules)[1], Head(rules)[2]),
                    Tail(rules))

\* the folder of the data sink an input key 'folder.@name' stands for
ContainerOf(key) == IF key = "xfm.@transforms" THEN Dir.xfm ELSE Dir.anat

\* where the data sink copies the file f it receives on the input key:
\* base_directory/folder/basename, before the substitutions
SinkPath(p, key, f) == Join(Join(FinalResDir(p), ContainerOf(key)), f)

\* DataSink 'data_sinker': every file of every connected input is copied
\* under final_res_dir, its path rewritten by the substitutions
ExecuteDataSink ==
    LET n == "data_sinker"
    IN  /\ Ready(n)
        /\ published' =
             UNION {{[key  |-> e[4],
                      name |-> node_out[e[1]][e[2]][i],
                      from |-> SinkPath(pipeline, e[4], node_out[e[1]][e[2]][i]),
                      to   |-> Substitute(SinkPath(pipeline, e[4],
                                             node_out[e[1]][e[2]][i]),
                                          substitutions)] :
                       i \in DOMAIN node_out[e[1]][e[2]]} :
                    e \in {x \in wf_edges : x[3] = n}}
        /\ Ran(n, [out_file |-> <<>>], FALSE)
        /\ UNCHANGED <<current, sidecar>>
        /\ UNCHANGED stage_vars

\* a variant that writes the sidecar whether self.wf.run() returned or raised
RunDictsinkAlways ==
    /\ wf_pc \in {"running", "crashed"}
    /\ wf_pc = "running" => (current = "none" /\ executed = wf_nodes)
    /\ wf_pc' = "dictsink_ran"
    /\ sidecar' = [written |-> TRUE, out_file |-> DictsinkOutFile(pipeline),
                   run_order |-> in_dict.run_order,
                   order_is_none |-> in_dict.order_is_none]
    /\ UNCHANGED <<pipeline, wf_nodes, wf_edges, outputnode_fields,
                   substitutions, in_dict, node_out, current, executed,
                   failed_nodes, p_do_nlm_denoising, p_multi_parameters,
                   graph_written, published>>
    /\ UNCHANGED <<cores_vars, stage_vars, batch_vars>>

\* self.wf.run() returned: self.dictsink.run() writes the JSON sidecar
RunDictsink ==
    /\ wf_pc = "running"
    /\ current = "none"
    /\ executed = wf_nodes
    /\ wf_pc' = "dictsink_ran"
    /\ sidecar' = [written |-> TRUE, out_file |-> DictsinkOutFile(pipeline),
                   run_order |-> in_dict.run_order,
                   order_is_none |-> in_dict.order_is_none]
    /\ UNCHANGED <<pipeline, wf_nodes, wf_edges, outputnode_fields,
                   substitutions, in_dict, node_out, current, executed,
                   failed_nodes, p_do_nlm_denoising, p_multi_parameters,
                   graph_written, published>>
    /\ UNCHANGED <<cores_vars, stage_vars, batch_vars>>

\* self.wf.write_graph(...) writes the image of the processing graph, then
\* run() returns res
RunEnd ==
    /\ wf_pc = "dictsink_ran"
    /\ wf_pc' = "finished"
    /\ graph_written' = TRUE
    /\ UNCHANGED <<pipeline, wf_nodes, wf_edges, outputnode_fields,
                   substitutions, in_dict, node_out, current, executed,
                   failed_nodes, p_do_nlm_denoising, p_multi_parameters,
                   published, sidecar>>
    /\ UNCHANGED <<cores_vars, stage_vars, batch_vars>>

(***************************************************************************)
(* pymialsrtk/workflows/preproc_stage.py : create_preproc_stage            *)
(***************************************************************************)
\* the fields of the IdentityInterface 'outputnode' (lines 58-63)
OutputFields(do_nlm) ==
    {"output_images", "output_masks"}
    \cup (IF do_nlm THEN {"output_images_nlm"} ELSE {})

\* the connect calls made whatever p_do_nlm_denoising is
\* (lines 142-189, 212-233, 248-250)
PreprocCommonEdges ==
    {<<"inputnode", "input_images", "reduceFOV", "input_image">>,
     <<"inputnode", "input_masks", "reduceFOV", "input_mask">>,
     <<"reduceFOV", "output_image", "nlmDenoise", "in_file">>,
     <<"reduceFOV", "output_mask", "nlmDenoise", "in_mask">>,
     <<"reduceFOV", "output_mask",
       "srtkCorrectSliceIntensity01_nlm", "in_mask">>,
     <<"reduceFOV", "output_mask",
       "srtkSliceBySliceN4BiasFieldCorrection", "in_mask">>,
     <<"reduceFOV", "output_mask", "srtkCorrectSliceIntensity01", "in_mask">>,
     <<"reduceFOV", "output_mask",
       "srtkSliceBySliceCorrectBiasField", "in_mask">>,
     <<"reduceFOV", "output_mask", "srtkCorrectSliceIntensity02", "in_mask">>,
     <<"reduceFOV", "output_mask",
       "srtkHistogramNormalization", "input_masks">>,
     <<"nlmDenoise", "out_file", "srtkCorrectSliceIntensity01_nlm", "in_file">>,
     <<"srtkCorrectSliceIntensity01_nlm", "out_file",
       "srtkSliceBySliceN4BiasFieldCorrection", "in_file">>,
     <<"reduceFOV", "output_image", "srtkCorrectSliceIntensity01", "in_file">>,
     <<"srtkCorrectSliceIntensity01", "out_file",
       "srtkSliceBySliceCorrectBiasField", "in_file">>,
     <<"srtkSliceBySliceN4BiasFieldCorrection", "out_fld_file",
       "srtkSliceBySliceCorrectBiasField", "in_field">>,
     <<"srtkSliceBySliceCorrectBiasField", "out_im_file",
       "srtkCorrectSliceIntensity02", "in_file">>,
     <<"srtkCorrectSliceIntensity02", "out_file",
       "srtkIntensityStandardization01", "input_images">>,
     <<"srtkIntensityStandardization01", "output_images",
       "srtkHistogramNormalization", "input_images">>,
     <<"srtkHistogramNormalization", "output_images",
       "srtkIntensityStandardization02", "input_images">>,
     <<"reduceFOV", "output_mask", "srtkMaskImage01", "in_mask">>,
     <<"srtkIntensityStandardization02", "output_images",
       "srtkMaskImage01", "in_file">>,
     <<"srtkMaskImage01", "out_im_file", "outputnode", "output_images">>,
     <<"reduceFOV", "output_mask", "outputnode", "output_masks">>}

\* the connect calls under "if p_do_nlm_denoising:" (lines 191-210, 235-246)
PreprocNlmEdges ==
    {<<"reduceFOV", "output_mask", "srtkCorrectSliceIntensity02_nlm", "in_mask">>,
     <<"reduceFOV", "output_mask",
       "srtkHistogramNormalization_nlm", "input_masks">>,
     <<"srtkSliceBySliceN4BiasFieldCorrection", "out_im_file",
       "srtkCorrectSliceIntensity02_nlm", "in_file">>,
     <<"srtkCorrectSliceIntensity02_nlm", "out_file",
       "srtkIntensityStandardization01_nlm", "input_images">>,
     <<"srtkIntensityStandardization01_nlm", "output_images",
       "srtkHistogramNormalization_nlm", "input_images">>,
     <<"srtkHistogramNormalization_nlm", "output_images",
       "srtkIntensityStandardization02_nlm", "input_images">>,
     <<"srtkIntensityStandardization02_nlm", "output_images",
       "srtkMaskImage01_nlm", "in_file">>,
     <<"reduceFOV", "output_mask", "srtkMaskImage01_nlm", "in_mask">>,
     <<"srtkMaskImage01_nlm", "out_im_file", "outputnode", "output_images_nlm">>}

\* a variant that leaves the denoising nodes out when denoising is disabled
PreprocEdgesWithoutNlmNodes(do_nlm) ==
    IF do_nlm THEN PreprocCommonEdges \cup PreprocNlmEdges
    ELSE {e \in PreprocCommonEdges :
             \A n \in {"nlmDenoise", "srtkCorrectSliceIntensity01_nlm",
                       "srtkSliceBySliceN4BiasFieldCorrection"} :
                e[1] # n /\ e[3] # n}

\* a variant in which both intensity standardizations precede the
\* histogram normalization of the non-denoised branch
PreprocEdgesStandardizationFirst(do_nlm) ==
    ((PreprocCommonEdges \cup (IF do_nlm THEN PreprocNlmEdges ELSE {}))
     \ {<<"srtkIntensityStandardization01", "output_images",
           "srtkHistogramNormalization", "input_images">>,
         <<"srtkHistogramNormalization", "output_images",
           "srtkIntensityStandardization02", "input_images">>,
         <<"srtkIntensityStandardization02", "output_images",
           "srtkMaskImage01", "in_file">>})
    \cup {<<"srtkIntensityStandardization01", "output_images",
            "srtkIntensityStandardization02", "input_images">>,
          <<"srtkIntensityStandardization02", "output_images",
            "srtkHistogramNormalization", "input_images">>,
          <<"srtkHistogramNormalization", "output_images",
            "srtkMaskImage01", "in_file">>}

PreprocEdges(do_nlm) ==
    PreprocCommonEdges \cup (IF do_nlm THEN PreprocNlmEdges ELSE {})

\* the connect calls whose source is a bare port name: every other call
\* passes the source through utils.sort_ascending (lines 142-143, 192,
\* 244-250)
PreprocPlainEdges ==
    {<<"inputnode", "input_images", "reduceFOV", "input_image">>,
     <<"inputnode", "input_masks", "reduceFOV", "input_mask">>,
     <<"reduceFOV", "output_mask", "srtkCorrectSliceIntensity02_nlm", "in_mask">>,
     <<"srtkMaskImage01_nlm", "out_im_file", "outputnode", "output_images_nlm">>,
     <<"srtkMaskImage01", "out_im_file", "outputnode", "output_images">>,
     <<"reduceFOV", "output_mask", "outputnode", "output_masks">>}

\* create_preproc_stage(p_do_nlm_denoising)
CreatePreprocStage ==
    /\ wf_pc = "preproc"
    /\ wf_pc' = "preproc_created"
    /\ wf_edges' = PreprocEdges(p_do_nlm_denoising)
    /\ wf_nodes' = NodesOf(PreprocEdges(p_do_nlm_denoising))
    /\ outputnode_fields' = OutputFields(p_do_nlm_denoising)
    /\ UNCHANGED <<pipeline, substitutions, in_dict, node_out, current,
                   executed, failed_nodes, p_do_nlm_denoising, p_multi_parameters,
                   graph_written, published,
                   sidecar>>
    /\ UNCHANGED <<cores_vars, stage_vars, batch_vars>>

(***************************************************************************)
(* pymialsrtk/workflows/sr_assessment_stage.py : create_sr_assessment_stage*)
(***************************************************************************)
\* input_fields, the fields of the IdentityInterface 'inputnode'
inputnode_fields ==
    {"input_reference_image", "input_reference_mask",
     "input_reference_labelmap", "input_image", "input_TV_parameters"}

\* a variant that binds output_metrics to the quality metrics directly,
\* next to the join node
SrAssessmentEdgesBypassJoin(multi) ==
    {<<"inputnode", "input_image", "quality_metrics", "input_image">>,
     <<"quality_metrics", "output_warped_image",
       "z_debug", "output_warped_image">>,
     <<"quality_metrics", "output_metrics", "outputnode", "output_metrics">>}
    \cup (IF multi
          THEN {<<"quality_metrics", "output_metrics",
                  "concatenate_quality_metrics", "input_metrics">>}
          ELSE {})

\* the connect calls of create_sr_assessment_stage (lines 98-119)
SrAssessmentEdges(multi) ==
    {<<"inputnode", "input_image", "quality_metrics", "input_image">>,
     <<"inputnode", "input_reference_image",
       "quality_metrics", "input_reference_image">>,
     <<"inputnode", "input_reference_mask",
       "quality_metrics", "input_reference_mask">>,
     <<"inputnode", "input_TV_parameters",
       "quality_metrics", "input_TV_parameters">>,
     <<"quality_metrics", "output_warped_image",
       "z_debug", "output_warped_image">>}
    \cup (IF multi
          THEN {<<"quality_metrics", "output_metrics",
                  "concatenate_quality_metrics", "input_metrics">>,
                <<"concatenate_quality_metrics", "output_csv",
                  "outputnode", "output_metrics">>}
          ELSE {<<"quality_metrics", "output_metrics",
                  "outputnode", "output_metrics">>})

\* create_sr_assessment_stage(p_multi_parameters)
CreateSrAssessmentStage ==
    /\ wf_pc = "sr_assessment"
    /\ wf_pc' = "sr_assessment_created"
    /\ wf_edges' = SrAssessmentEdges(p_multi_parameters)
    /\ wf_nodes' = NodesOf(SrAssessmentEdges(p_multi_parameters))
    /\ outputnode_fields' = {"output_metrics"}
    /\ UNCHANGED <<pipeline, substitutions, in_dict, node_out, current,
                   executed, failed_nodes, p_do_nlm_denoising,
                   p_multi_parameters, graph_written, published, sidecar>>
    /\ UNCHANGED <<cores_vars, stage_vars, batch_vars>>

(***************************************************************************)
(* An execution of a graph that respects its connections                   *)
(***************************************************************************)
\* a variant that runs a node whatever the state of the nodes feeding it
RunNodeUnordered(n) ==
    /\ wf_pc \in {"running", "preproc_created", "sr_assessment_created"}
    /\ n \in wf_nodes \ executed
    /\ executed' = executed \cup {n}
    /\ UNCHANGED <<pipeline, wf_nodes, wf_edges, outputnode_fields,
                   substitutions, in_dict, node_out, current, failed_nodes,
                   p_do_nlm_denoising, p_multi_parameters, graph_written,
                   published, sidecar, wf_pc>>
    /\ UNCHANGED <<cores_vars, stage_vars, batch_vars>>

\* one node runs to completion: the engine (self.wf.run, whichever plugin)
\* picks any node whose every feeding node has completed
RunNode(n) ==
    /\ wf_pc \in {"running", "preproc_created", "sr_assessment_created"}
    /\ n \in wf_nodes \ executed
    /\ \A e \in wf_edges : e[3] = n => e[1] \in executed
    /\ executed' = executed \cup {n}
    /\ UNCHANGED <<pipeline, wf_nodes, wf_edges, outputnode_fields,
                   substitutions, in_dict, node_out, current, failed_nodes,
                   p_do_nlm_denoising, p_multi_parameters, graph_written,
                   published, sidecar, wf_pc>>
    /\ UNCHANGED <<cores_vars, stage_vars, batch_vars>>

(***************************************************************************)
(* The pipeline of one subject, and the stage graphs                       *)
(***************************************************************************)
\* Either an AnatomicalPipeline constructed with its eight parameters for
\* the subject of the data set and a reconstruction identifier of ids, or a
\* call of create_preproc_stage, or a call of create_sr_assessment_stage.
Constructed(ids) ==
    /\ CoresIdle
    /\ BatchIdle
    /\ StageIdle
    /\ wf_nodes = {}
    /\ wf_edges = {}
    /\ outputnode_fields = {}
    /\ substitutions = <<>>
    /\ in_dict = [run_order |-> <<>>, order_is_none |-> TRUE]
    /\ node_out = <<>>
    /\ current = "none"
    /\ executed = {}
    /\ failed_nodes = {}
    /\ published = {}
    /\ sidecar = [written |-> FALSE, out_file |-> <<>>, run_order |-> <<>>,
                  order_is_none |-> TRUE]
    /\ graph_written = FALSE
    /\ \/ /\ wf_pc = "constructed"
          /\ p_do_nlm_denoising = FALSE
          /\ p_multi_parameters = FALSE
          /\ \E order \in PipelineOrders, session \in Sessions,
                srID \in ids, use_manual_masks \in BOOLEAN :
                pipeline = AnatomicalPipeline_init(
                              <<"bids_dir", "output_dir", SubSes, order, srID,
                                session, "None", use_manual_masks>>).self
       \/ /\ wf_pc = "preproc"
          /\ p_do_nlm_denoising \in BOOLEAN
          /\ p_multi_parameters = FALSE
          /\ pipeline = NoPipeline
       \/ /\ wf_pc = "sr_assessment"
          /\ p_do_nlm_denoising = FALSE
          /\ p_multi_parameters \in BOOLEAN
          /\ pipeline = NoPipeline

\* the assembly of the graphs, up to the call of self.wf.run
BuildInit == Constructed(SrIds)

BuildNext ==
    \/ CreateWorkflow
    \/ RunBegin
    \/ CreatePreprocStage
    \/ CreateSrAssessmentStage
    \/ \E n \in wf_nodes : RunNode(n)

SpecBuild == BuildInit /\ [][BuildNext]_vars

\* the run of the workflow of one reconstruction
PipelineInit == Constructed({<<"1">>})

PipelineNext ==
    \/ CreateWorkflow
    \/ RunBegin
    \/ ExecuteDataGrabber
    \/ ExecuteBypass
    \/ ExecuteBrainExtraction
    \/ \E n \in wf_nodes : ExecuteIntensityStandardization(n)
    \/ \E n \in wf_nodes : StartNode(n)
    \/ RunInterfaceBegin
    \/ RunInterfaceIter
    \/ RunInterfaceEnd
    \/ ListOutputs
    \/ FinishNode
    \/ CrashNode
    \/ \E n \in wf_nodes : ExecuteExternal(n)
    \/ ExecuteDataSink
    \/ RunDictsink
    \/ RunEnd
    \/ CreatePreprocStage
    \/ CreateSrAssessmentStage

SpecPipeline == PipelineInit /\ [][PipelineNext]_vars

(***************************************************************************)
(* pymialsrtk/interfaces/preprocess.py : the single-stack interfaces       *)
(***************************************************************************)
\* The output paths of a single-stack interface: told, the paths
\* _run_interface puts on the command line of the external transform (or
\* saves the mask to), and listed, the paths _list_outputs reports.  bids
\* is self.inputs.bids_dir, wd is os.getcwd(), out_postfix is the value the
\* pipeline's multi-stack interface passes.
SingleOutFiles(itf, bids, wd, in_file) ==
    LET slashes == {i \in 1..Len(in_file) : in_file[i] = "/"}
        last == IF slashes = {} THEN 0
                ELSE CHOOSE i \in slashes : \A j \in slashes : j <= i
        base == SubSeq(in_file, last + 1, Len(in_file))
        fetaldata == <<"/", "f", "e", "t", "a", "l", "d", "a", "t", "a">>
        InCwd(postfix) ==
            Join(ReplaceAll(wd, bids, fetaldata), OutFile(base, postfix))
    IN  CASE itf = "BtkNLMDenoising" ->
               [told   |-> <<InCwd(PostfixNlm)>>,
                listed |-> <<Join(bids, OutFile(base, PostfixNlm))>>]
          [] itf = "MialsrtkCorrectSliceIntensity" ->
               [told   |-> <<InCwd(PostfixUni)>>,
                listed |-> <<InCwd(PostfixUni)>>]
          [] itf = "MialsrtkSliceBySliceN4BiasFieldCorrection" ->
               [told   |-> <<InCwd(PostfixBcorr), InCwd(PostfixN4bias)>>,
                listed |-> <<InCwd(PostfixBcorr), InCwd(PostfixN4bias)>>]
          [] itf = "MialsrtkSliceBySliceCorrectBiasField" ->
               [told   |-> <<InCwd(PostfixBcorr)>>,
                listed |-> <<InCwd(PostfixBcorr)>>]
          [] itf = "MialsrtkMaskImage" ->
               [told   |-> <<InCwd(<<>>)>>,
                listed |-> <<InCwd(<<>>)>>]
          [] itf = "BrainExtraction" ->
               [told   |-> <<InCwd(Part.brainMask)>>,
                listed |-> <<SubSeq(in_file, 1, Len(in_file) - 4)
                             \o Part.brainMask>>]

\* a single-stack interface before its run: bids_dir is /fetaldata or
\* another directory, the working directory is bids_dir, a directory under
\* it or a node directory elsewhere, and in_file is a stack of bids_dir or
\* the output of another node
SingleInit ==
    /\ CoresIdle
    /\ BatchIdle
    /\ WfIdle
    /\ interface \in {"BtkNLMDenoising", "MialsrtkCorrectSliceIntensity",
                      "MialsrtkSliceBySliceN4BiasFieldCorrection",
                      "MialsrtkSliceBySliceCorrectBiasField",
                      "MialsrtkMaskImage", "BrainExtraction"}
    /\ inputs_bids_dir \in
          {<<"/", "f", "e", "t", "a", "l", "d", "a", "t", "a">>,
           <<"/", "b", "i", "d", "s">>}
    /\ getcwd \in {inputs_bids_dir, Join(inputs_bids_dir, Dir.nipype),
                   Join(<<"/", "o", "u", "t">>, Dir.nipype)}
    /\ \E d \in {Join(inputs_bids_dir, Dir.anat),
                  Join(<<"/", "o", "u", "t">>, Dir.nipype)} :
       \E r \in Runs :
          input_images = <<Join(d, ImagePath(r))>>
    /\ input_masks = <<>>
    /\ input_fields = <<>>
    /\ given_order = <<>>
    /\ stacks_order = <<>>
    /\ run_nb_images = <<>>
    /\ run_nb_masks = <<>>
    /\ run_nb_fields = <<>>
    /\ k = 0
    /\ calls = <<>>
    /\ cmd = <<>>
    /\ cwd_files = {}
    /\ outputs = [output_images |-> <<>>, output_fields |-> <<>>]
    /\ error = "none"
    /\ pc = "start"

\* _run_interface of a single-stack interface: the output paths are put on
\* the command line; a failure of the transform is caught and printed
SingleRunInterface ==
    /\ pc = "start"
    /\ getcwd # <<>>
    /\ LET o == SingleOutFiles(interface, inputs_bids_dir, getcwd,
                               input_images[1])
       IN  /\ cmd' = o.told
           /\ \E ok \in BOOLEAN :
                 cwd_files' = IF ok THEN {o.told[i] : i \in DOMAIN o.told}
                              ELSE {}
    /\ pc' = "ran"
    /\ UNCHANGED <<interface, inputs_bids_dir, getcwd, input_images,
                   input_masks, input_fields, given_order, stacks_order,
                   run_nb_images, run_nb_masks, run_nb_fields, k, calls,
                   outputs, error>>
    /\ UNCHANGED <<cores_vars, batch_vars, wf_vars>>

\* _list_outputs of a single-stack interface
SingleListOutputs ==
    /\ pc = "ran"
    /\ getcwd # <<>>
    /\ LET o == SingleOutFiles(interface, inputs_bids_dir, getcwd,
                               input_images[1])
       IN  outputs' = [output_images |-> <<o.listed[1]>>,
                       output_fields |-> Tail(o.listed)]
    /\ pc' = "done"
    /\ UNCHANGED <<interface, inputs_bids_dir, getcwd, input_images,
                   input_masks, input_fields, given_order, stacks_order,
                   run_nb_images, run_nb_masks, run_nb_fields, k, calls,
                   cmd, cwd_files, error>>
    /\ UNCHANGED <<cores_vars, batch_vars, wf_vars>>

SpecSingle ==
    SingleInit /\ [][SingleRunInterface \/ SingleListOutputs]_vars

(***************************************************************************)
(* The first node fed by the data grabber                                  *)
(***************************************************************************)
\* names a directory sub-01/anat may hold, in the order of a sorted file
\* list: a T2w without run entity, a T2w stack with an acquisition entity,
\* the T2w stacks of runs 0 and 1, and a T1w of run 1
AnatCandidates ==
    <<SubSes \o T2w \o NiiGz,
      StackFile(<<"a", "c", "q", "-", "a">> \o U \o RunMarker \o Str(1), T2w),
      StackFile(RunMarker \o Str(0), T2w),
      StackFile(RunMarker \o Str(1), <<"_", "T", "1", "w">>),
      StackFile(RunMarker \o Str(1), T2w)>>

\* dg.outputs.T2ws for a subject without session: the files of the directory
\* that match sub_ses + '*_run-*_T2w.nii.gz' (lines 232-233), sorted
Grabbed(present) ==
    LET tail == T2w \o NiiGz
        Matches(f) ==
            /\ f \in present
            /\ Len(f) >= Len(SubSes) + Len(tail)
            /\ SubSeq(f, 1, Len(SubSes)) = SubSes
            /\ EndsWith(f, tail)
            /\ Find(SubSeq(f, Len(SubSes) + 1, Len(f) - Len(tail)),
                    U \o RunMarker) # 0
    IN  SelectSeq(AnatCandidates, Matches)

\* nlmDenoise, the node whose input_images are connected to dg.T2ws (line
\* 351) and whose masks are not connected (line 352): any directory
\* content, any stacks_order over the runs of the data set
GrabbedInit ==
    /\ CoresIdle
    /\ BatchIdle
    /\ WfIdle
    /\ interface = "MultipleBtkNLMDenoising"
    /\ \E present \in SUBSET {AnatCandidates[i] : i \in DOMAIN AnatCandidates} :
          input_images = Grabbed(present)
    /\ input_masks = <<>>
    /\ input_fields = <<>>
    /\ \E order \in PipelineOrders : given_order = order.list
    /\ StageReady

SpecGrabbed == GrabbedInit /\ [][StageNext]_vars

(***************************************************************************)
(* Properties                                                              *)
(***************************************************************************)
Range(seq) == {seq[i] : i \in 1..Len(seq)}

Finished == pc \in {"ran", "done"}

\* what one stack hands to the external transform is named after the run
\* index the transform is invoked for
PairedByRun(c) ==
    /\ c.in_file = ImageOf[c.order]
    /\ IF MaskIsOptional(interface) /\ Len(input_masks) = 0
       THEN c.in_mask = NoFile
       ELSE c.in_mask = MaskOf[c.order]
    /\ IF TakesField(interface)
       THEN c.in_field = FieldOf[c.order]
       ELSE c.in_field = NoFile

\* C1: in every multi-stack interface, whatever the order of the image, mask
\* and field lists, the external transform invoked for the i-th run index r
\* of stacks_order receives the image, the mask (when masks are given) and
\* the bias field (when the stage takes one) whose file name carries r.
C1_PairedByIdentity ==
    /\ \A i \in 1..Len(calls) :
          calls[i].order = stacks_order[i] /\ PairedByRun(calls[i])
    /\ \A i \in 1..Len(cmd) :
          cmd[i].order = stacks_order[i] /\ PairedByRun(cmd[i])

\* C1 witness: the bias field application has processed three stacks whose
\* images, masks and fields were listed in three different orders, none of
\* them the processing order.
C1_Witness ==
    /\ interface = "MultipleMialsrtkSliceBySliceCorrectBiasField"
    /\ pc = "ran"
    /\ Len(calls) = 3
    /\ run_nb_images = <<2, 0, 1>>
    /\ run_nb_masks = <<1, 2, 0>>
    /\ run_nb_fields = <<0, 2, 1>>
    /\ stacks_order = <<1, 0, 2>>
    /\ \A i \in 1..Len(calls) : calls[i].ok

SelectedImages == [i \in 1..Len(calls) |-> calls[i].in_file]

\* once is the selection the stage made, and selecting again in it with the
\* same order changes nothing
SameWhenRepeated(once) ==
    /\ once.err = "none"
    /\ once.seq = SelectedImages
    /\ reorder(once.seq, once.run_nb, stacks_order) = once

\* C2: when the stage has gone through a given order, the i-th image it
\* selected is the one whose run index is order[i], it selected len(order)
\* images, the order it was given is the order it used, and selecting again
\* in the selected sequence with the same order gives the same sequence.
C2_ReorderByOrder ==
    Finished =>
       /\ Len(SelectedImages) = Len(stacks_order)
       /\ \A i \in 1..Len(stacks_order) :
             SelectedImages[i] = ImageOf[stacks_order[i]]
       /\ given_order # <<>> => stacks_order = given_order
       /\ SameWhenRepeated(reorder(input_images, run_nb_images, stacks_order))

\* C2 witness: stacks listed with run indices [2,0,1] were taken in the
\* order [0,1,2].
C2_Witness ==
    /\ pc = "ran"
    /\ run_nb_images = <<2, 0, 1>>
    /\ given_order = <<0, 1, 2>>
    /\ Len(calls) = 3
    /\ \A i \in 1..Len(calls) : calls[i].ok

\* a run index without an image, without a mask or without a field
NoImage(r) == ImageOf[r] \notin Range(input_images)
NoMask(r)  == MaskOf[r] \notin Range(input_masks)
NoField(r) == TakesField(interface) /\ FieldOf[r] \notin Range(input_fields)

\* the stage never gets past position j of stacks_order
StopsBefore(j) ==
    /\ ~Finished
    /\ k <= j
    /\ Len(calls) < j
    /\ Len(cmd) < j
    /\ pc = "failed" => error = "ValueError"

\* C3 as stated: a run index of stacks_order without an image, a mask or a
\* field makes the stage fail before the transform is invoked for it.
C3_MissingArtifactFails ==
    pc # "start" =>
       \A j \in 1..Len(stacks_order) :
          (NoImage(stacks_order[j]) \/ NoMask(stacks_order[j])
             \/ NoField(stacks_order[j]))
          => StopsBefore(j)

\* the interface was given masks, or cannot do without them
MasksLookedUp == ~(MaskIsOptional(interface) /\ Len(input_masks) = 0)

\* C3 amended: a run index of stacks_order without an image, without a field,
\* or without a mask in a mask list that is looked up (a non-empty one, or
\* the one of an interface that requires masks) makes the stage fail with
\* ValueError before the transform is invoked for it.
C3_MissingLookedUpArtifactFails ==
    pc # "start" =>
       \A j \in 1..Len(stacks_order) :
          (NoImage(stacks_order[j])
             \/ (MasksLookedUp /\ NoMask(stacks_order[j]))
             \/ NoField(stacks_order[j]))
          => StopsBefore(j)

\* C3 witness: the first stack was processed, the second one has an image
\* but no mask in the non-empty mask list, and the stage failed there.
C3_Witness ==
    /\ pc = "failed"
    /\ error = "ValueError"
    /\ given_order # <<>>
    /\ Len(calls) = 1
    /\ k = 2
    /\ Len(input_masks) > 0
    /\ ~NoImage(stacks_order[2])
    /\ NoMask(stacks_order[2])

\* names that carry no run index
MalformedNames(suffix) ==
    {StackFile(RunPart(kind, r), suffix) : kind \in MalformedKinds, r \in Runs}

NamesWithoutMarker(suffix) ==
    {StackFile(RunPart("no marker", r), suffix) : r \in Runs}

\* the ways the run index r is written in a well-formed name
NamesOf(r, suffix) ==
    {StackFile(RunPart(kind, r), suffix) : kind \in WellFormedKinds}

Malformed ==
    \/ \E i \in 1..Len(input_images) :
          input_images[i] \in MalformedNames(ImageSuffix)
    \/ \E i \in 1..Len(input_masks) :
          input_masks[i] \in MalformedNames(MaskSuffix)
    \/ \E i \in 1..Len(input_fields) :
          input_fields[i] \in MalformedNames(FieldSuffix)

MarkerAbsent ==
    \/ \E i \in 1..Len(input_images) :
          input_images[i] \in NamesWithoutMarker(ImageSuffix)
    \/ \E i \in 1..Len(input_masks) :
          input_masks[i] \in NamesWithoutMarker(MaskSuffix)
    \/ \E i \in 1..Len(input_fields) :
          input_fields[i] \in NamesWithoutMarker(FieldSuffix)

ParsedAs(paths, run_nb, suffix) ==
    /\ Len(run_nb) = Len(paths)
    /\ \A i \in 1..Len(paths) : paths[i] \in NamesOf(run_nb[i], suffix)

\* C4: the run index of a file is the integer written between 'run-' and
\* the next '_' of its name; when the marker is absent from an image, a mask
\* or a field, or what follows it is not an integer, the stage fails with an
\* exception (IndexError, resp. ValueError) without processing any stack.
C4_IdentityParsedOrStageFails ==
    pc # "start" =>
       IF Malformed
       THEN /\ pc = "failed"
            /\ error = IF MarkerAbsent THEN "IndexError" ELSE "ValueError"
            /\ calls = <<>>
            /\ cmd = <<>>
            /\ cwd_files = {}
       ELSE /\ ParsedAs(input_images, run_nb_images, ImageSuffix)
            /\ ParsedAs(input_masks, run_nb_masks, MaskSuffix)
            /\ ParsedAs(input_fields, run_nb_fields, FieldSuffix)

\* C4 witness: two well-named images, a mask whose name has something else
\* than a number after the marker, and the stage has failed.
C4_Witness ==
    /\ pc = "failed"
    /\ error = "ValueError"
    /\ Len(input_images) = 2
    /\ ~(\E i \in 1..Len(input_images) :
            input_images[i] \in MalformedNames(ImageSuffix))
    /\ \E i \in 1..Len(input_masks) :
          input_masks[i] = StackFile(RunPart("not a number", 0), MaskSuffix)

\* the run indices of the input images in ascending order
RECURSIVE Ascending(_)
Ascending(S) ==
    IF S = {} THEN <<>>
    ELSE <<Least(S)>> \o Ascending(S \ {Least(S)})

RunsOfImages == {r \in Runs : ImageOf[r] \in Range(input_images)}

\* C5 as stated: a stage whose stacks_order is empty or unset goes through
\* the run indices present in its input images in ascending order.
C5_DefaultIsAscendingRuns ==
    (given_order = <<>> /\ pc # "start") =>
       /\ stacks_order = Ascending(RunsOfImages)
       /\ pc # "failed"

\* C10 as stated: a stage one of whose external transforms failed signals
\* the failure and reports no output collection shorter than the number of
\* stacks it went through.
C10_FailedTransformFailsStage ==
    /\ Finished => \A i \in 1..Len(calls) : calls[i].ok
    /\ pc = "done" => Len(outputs.output_images) = Len(stacks_order)

\* the run indices of the files of a reported collection, as listed
RunsListed(files) == [i \in 1..Len(files) |-> identity_of(files[i]).val]

\* C20 as stated: the collections a multi-stack stage reports list one
\* artifact per stack it went through, in the order of the run indices it
\* went through them.
C20_OutputsInProcessingOrder ==
    pc = "done" =>
       /\ RunsListed(outputs.output_images) = stacks_order
       /\ interface = "MultipleMialsrtkSliceBySliceN4BiasFieldCorrection"
             => RunsListed(outputs.output_fields) = stacks_order

(***************************************************************************)
(* Properties of the core-count negotiation                                *)
(***************************************************************************)
Called == cores_pc # "args"

Returned(omp, nip) ==
    /\ cores_pc = "resolved"
    /\ openmp_nb_of_cores = omp
    /\ nipype_nb_of_cores = nip

\* the both-zero default: outer = available // 2, inner = available // outer
ReturnedDefault ==
    /\ cores_pc = "resolved"
    /\ openmp_nb_of_cores = nb_of_cores \div 2
    /\ openmp_nb_of_cores # 0
    /\ nipype_nb_of_cores = nb_of_cores \div openmp_nb_of_cores

\* C6 as stated: with both requested counts zero the call returns
\* outer = available // 2 and inner = available // outer, for every
\* available core count.
C6_BothZeroDefault ==
    (Called /\ args_openmp = 0 /\ args_nipype = 0) => ReturnedDefault

Min(a, b) == IF a <= b THEN a ELSE b

\* the rule for a single given count g: (clamped g, derived other count)
Derived(g) ==
    IF Min(g, nb_of_cores) = nb_of_cores THEN 1 ELSE nb_of_cores \div g

C8_BothKnobsGiven ==
    (Called /\ args_openmp > 0 /\ args_nipype > 0) =>
       IF \/ args_openmp > nb_of_cores
          \/ args_nipype > nb_of_cores
          \/ args_openmp * args_nipype > nb_of_cores
       THEN ReturnedDefault
       ELSE Returned(args_openmp, args_nipype)

\* C9 as stated: for every available count >= 1 and requested counts >= 0
\* the call returns, without raising, a pair of counts >= 1 whose product
\* does not exceed available.
C9_NoOversubscription ==
    Called =>
       /\ cores_pc = "resolved"
       /\ openmp_nb_of_cores >= 1
       /\ nipype_nb_of_cores >= 1
       /\ openmp_nb_of_cores * nipype_nb_of_cores <= nb_of_cores

(***************************************************************************)
(* Properties of the batch loop                                            *)
(***************************************************************************)
BatchOver == batch_pc = "exited"

\* the configurations of the labels given, in the order the loops meet them
RECURSIVE ConfigsFrom(_, _)
ConfigsFrom(i, j) ==
    IF i > Len(participant_label) THEN <<>>
    ELSE IF participant_label[i] \notin DOMAIN participants_params
         THEN ConfigsFrom(i + 1, 1)
    ELSE IF j > Len(participants_params[participant_label[i]])
         THEN ConfigsFrom(i + 1, 1)
    ELSE <<[sub |-> participant_label[i], at |-> j,
            cfg |-> participants_params[participant_label[i]][j]]>>
         \o ConfigsFrom(i, j + 1)

\* the configurations of a sequence that have (or lack) the key 'sr-id'
RECURSIVE Keep(_, _)
Keep(seq, with_sr_id) ==
    IF seq = <<>> THEN <<>>
    ELSE (IF Head(seq).cfg.has_sr_id = with_sr_id
          THEN <<Head(seq)>> ELSE <<>>)
         \o Keep(Tail(seq), with_sr_id)

\* C12 as stated: when the batch is over, the configurations without
\* 'sr-id' and only they were reported and passed over, and main() was
\* called for every other configuration, in list order, with its own sr-id.
C12_OnlyConfigWithoutSrIdSkipped ==
    (BatchOver /\ Len(participant_label) >= 1) =>
       LET all == ConfigsFrom(1, 1)
           run == Keep(all, TRUE)
           not_run == Keep(all, FALSE)
       IN  /\ skipped = [i \in 1..Len(not_run) |->
                           [sub |-> not_run[i].sub, at |-> not_run[i].at]]
           /\ Len(mains) = Len(run)
           /\ \A i \in 1..Len(run) :
                 /\ mains[i].sub = run[i].sub
                 /\ mains[i].at = run[i].at
                 /\ mains[i].sr_id = run[i].cfg.sr_id

C14_ErrorEndsOnlyItsRun ==
    (BatchOver /\ \E i \in 1..Len(mains) : mains[i].raised # "none") =>
       sub_i > Len(participant_label)

\* C19 as stated: a run started from a configuration with an explicit
\* stacksOrder completes, and the JSON sidecar lists that order unchanged.
C19_SidecarKeepsStacksOrder ==
    \A i \in 1..Len(mains) :
       ~mains[i].stacksOrder.none =>
          /\ mains[i].raised = "none"
          /\ mains[i].sidecar_order = mains[i].stacksOrder


\* ---- the graphs ----
ExtractionNodes == {n \in wf_nodes : NodeInterface(n) = "MultipleBrainExtraction"}

\* the stages that take the per-stack masks on a port input_masks
HasMaskPort(n) == n \in MaskedNodes \/ NodeInterface(n) \in Interfaces

\* the graph of a pipeline built with manual masks
ManualMasksGraph ==
    /\ ExtractionNodes = {}
    /\ <<"data_grabber", "masks", "brain_masks_bypass", "masks">> \in wf_edges
    /\ NodeInterface("brain_masks_bypass") = "IdentityInterface"
    /\ \A e \in wf_edges : e[3] = "data_sinker" => e[4] # "anat.@LRmasks"

\* the one extraction node of a pipeline built without manual masks
OneExtractionNode ==
    /\ Cardinality(ExtractionNodes) = 1
    /\ \A x \in ExtractionNodes :
          <<"data_grabber", "T2ws", x, "input_images">> \in wf_edges

\* the mask port of the stage n is bound to the extraction node
MaskPortBound(n) ==
    \E x \in ExtractionNodes : <<x, "masks", n, "input_masks">> \in wf_edges

\* C15 (as stated): with manual masks the graph has no brain-extraction node,
\* the masks come from the data grabber through an identity bypass and no
\* extracted mask is published; without manual masks the graph has exactly
\* one brain-extraction node fed by the input images and the mask port of
\* every stage is bound to it.
C15_EveryMaskPortBound ==
    wf_pc = "created" =>
       IF pipeline.use_manual_masks THEN ManualMasksGraph
       ELSE /\ OneExtractionNode
            /\ \A n \in wf_nodes : HasMaskPort(n) => MaskPortBound(n)

\* C15 (amended): the same, except that without manual masks the mask port of
\* the denoising stage nlmDenoise is left unbound (it denoises the whole
\* image); the mask port of every other stage is bound to the extraction
\* node, and no mask port is bound to anything else.
C15_MaskPortsBoundButDenoising ==
    wf_pc = "created" =>
       IF pipeline.use_manual_masks THEN ManualMasksGraph
       ELSE /\ OneExtractionNode
            /\ \A n \in wf_nodes \ {"nlmDenoise"} :
                  HasMaskPort(n) => MaskPortBound(n)
            /\ \A e \in wf_edges :
                  e[4] = "input_masks" => e[1] \in ExtractionNodes
            /\ \A e \in wf_edges : ~(e[3] = "nlmDenoise" /\ e[4] = "input_masks")

C15_Witness ==
    /\ wf_pc = "created"
    /\ ~pipeline.use_manual_masks
    /\ "Multiple_Brain_extraction" \in wf_nodes
    /\ "nlmDenoise" \in wf_nodes
    /\ MaskPortBound("srtkMaskImage01")

\* the nodes of the denoised branch that follow the estimation of the bias
\* field, and the nodes that estimate it
LateNlmNodes ==
    {"srtkCorrectSliceIntensity02_nlm", "srtkIntensityStandardization01_nlm",
     "srtkHistogramNormalization_nlm", "srtkIntensityStandardization02_nlm",
     "srtkMaskImage01_nlm"}
EarlyNlmNodes == {"nlmDenoise", "srtkCorrectSliceIntensity01_nlm"}

\* both branches exist and end on the ports of outputnode
BothBranchesBound ==
    /\ EarlyNlmNodes \cup LateNlmNodes \subseteq wf_nodes
    /\ {"output_images", "output_images_nlm"} \subseteq outputnode_fields
    /\ <<"srtkMaskImage01", "out_im_file", "outputnode", "output_images">>
          \in wf_edges
    /\ <<"srtkMaskImage01_nlm", "out_im_file", "outputnode",
         "output_images_nlm">> \in wf_edges

NoNlmPort ==
    /\ "output_images_nlm" \notin outputnode_fields
    /\ \A e \in wf_edges : e[4] # "output_images_nlm"
    /\ <<"srtkMaskImage01", "out_im_file", "outputnode", "output_images">>
          \in wf_edges

TransformFailed ==
    \/ failed_nodes # {}
    \/ \E i \in 1..Len(calls) : ~calls[i].ok

\* the step starts a node of the workflow
StartsNode ==
    /\ current = "none"
    /\ current' # "none" \/ executed' # executed

\* C11 (as stated): once a per-stack transform or an aggregate stage has
\* failed during a run of the pipeline, no stage that has not started yet is
\* started, and the run does not end as a finished run.
C11_NoStageStartsAfterFailure ==
    [][/\ TransformFailed => ~StartsNode
       /\ TransformFailed => wf_pc' # "finished"]_vars


\* the published artifacts whose internal name the source of a rule matches
MatchedBy(rule) == {a \in published : Find(a.from, rule[1]) # 0}

\* no two artifacts with distinct internal names are published under one name
DistinctPublishedNames ==
    \A a, b \in published : a.from # b.from => a.to # b.to

\* the rules whose source names a '_LRmask' file
IsLRmaskRule(rule) == Find(rule[1], Part.LRmask) # 0

OtherRuns ==
    {q \in {[pipeline EXCEPT !.subject = SubPrefix \o l, !.session = ses,
                             !.srID = id] :
               l \in Labels, ses \in Sessions, id \in SrIds} :
        <<q.subject, q.session, q.srID>>
           # <<pipeline.subject, pipeline.session, pipeline.srID>>}

\* the paths the run of q publishes when it goes the way this run went over
\* the stacks of its own subject and session
PublishedBy(q) ==
    {Substitute(SinkPath(q, a.key,
                   ReplaceAll(a.name, SubSesOf(pipeline), SubSesOf(q))),
                Substitutions(q)) : a \in published}

IsPrefix(a, b) == Len(a) <= Len(b) /\ SubSeq(b, 1, Len(a)) = a

\* C18 (as stated): two runs of the pipeline whose (subject, session,
\* reconstruction-id) triples differ write no common path: their working
\* directories are apart, and they publish no file, and no sidecar, under
\* the same path (stated for a run in which no transform failed).
C18_NoPathSharedBetweenRuns ==
    (wf_pc = "finished" /\ failed_nodes = {}) =>
       \A q \in OtherRuns :
          /\ ~IsPrefix(WfBaseDir(q), WfBaseDir(pipeline))
          /\ ~IsPrefix(WfBaseDir(pipeline), WfBaseDir(q))
          /\ DictsinkOutFile(q) # DictsinkOutFile(pipeline)
          /\ PublishedBy(q) \cap {a.to : a \in published} = {}

\* C21: in the graph of create_preproc_stage, for both values of
\* p_do_nlm_denoising, every collection bound to an iterated input (in_file,
\* in_mask, in_field) of a mapped node downstream of reduceFOV is passed
\* through utils.sort_ascending.
C21_IteratedInputsSorted ==
    wf_pc = "preproc_created" =>
       \A e \in wf_edges :
          e[4] \in {"in_file", "in_mask", "in_field"} =>
             e \notin PreprocPlainEdges

\* the stages of seq that are in the graph run in the order of seq: none
\* has completed unless the one before it has
InOrder(seq) ==
    \A i \in 1..(Len(seq) - 1) :
       (seq[i] \in wf_nodes /\ seq[i + 1] \in wf_nodes) =>
          (seq[i + 1] \in executed => seq[i] \in executed)

\* C22 as stated: in every execution of the preprocessing graph that
\* respects its connections, the stages of the non-denoised branch run in
\* the order field-of-view reduction, slice intensity correction pass 1 and
\* pass 2, slice-by-slice N4 estimation, bias-field correction, intensity
\* standardization pass 1 and pass 2, histogram normalization, masking.
C22_StagesInStatedOrder ==
    wf_pc = "preproc_created" =>
       InOrder(<<"reduceFOV", "srtkCorrectSliceIntensity01",
                 "srtkCorrectSliceIntensity02",
                 "srtkSliceBySliceN4BiasFieldCorrection",
                 "srtkSliceBySliceCorrectBiasField",
                 "srtkIntensityStandardization01",
                 "srtkIntensityStandardization02",
                 "srtkHistogramNormalization", "srtkMaskImage01">>)

\* C22: in every execution that respects the connections, the non-denoised
\* branch runs in the order slice intensity correction pass 1, bias-field
\* correction, slice intensity correction pass 2, intensity standardization
\* pass 1, histogram normalization, intensity standardization pass 2; the
\* bias-field correction also waits for the slice-by-slice N4 estimation;
\* in the preprocessing stage the field-of-view reduction precedes and the
\* masking follows.
C22_StagesInGraphOrder ==
    /\ wf_pc \in {"preproc_created", "running"} =>
          /\ InOrder(<<"srtkCorrectSliceIntensity01",
                       "srtkSliceBySliceCorrectBiasField",
                       "srtkCorrectSliceIntensity02",
                       "srtkIntensityStandardization01",
                       "srtkHistogramNormalization",
                       "srtkIntensityStandardization02">>)
          /\ InOrder(<<"srtkSliceBySliceN4BiasFieldCorrection",
                       "srtkSliceBySliceCorrectBiasField">>)
    /\ wf_pc = "preproc_created" =>
          /\ InOrder(<<"reduceFOV", "srtkCorrectSliceIntensity01">>)
          /\ InOrder(<<"reduceFOV", "srtkSliceBySliceN4BiasFieldCorrection">>)
          /\ InOrder(<<"srtkIntensityStandardization02", "srtkMaskImage01">>)

\* the histogram normalization has run between the two intensity
\* standardizations, and the masking has completed
C22_Witness ==
    /\ wf_pc = "preproc_created"
    /\ "srtkMaskImage01" \in executed
    /\ "srtkHistogramNormalization" \in executed

\* the nodes feeding one of the input ports of n
Feeding(n) == {e[1] : e \in {d \in wf_edges : d[3] = n}}

\* C23: in every execution of the graph of create_workflow that respects
\* its connections, no stage has started before every stage feeding one of
\* its input ports has completed; the total-variation super-resolution runs
\* only after the image reconstruction (transforms and SDI) and after the
\* second intensity standardization of the non-denoised branch; the HR-mask
\* refinement and the N4 correction of the HR volume run only after the
\* super-resolution; and the graph has no cycle: as long as a node is left,
\* some node can run.
C23_StagesWaitForTheirInputs ==
    wf_pc = "running" =>
       /\ \A n \in executed : Feeding(n) \subseteq executed
       /\ {"srtkImageReconstruction", "srtkIntensityStandardization02"}
             \subseteq Feeding("srtkTVSuperResolution")
       /\ \E e \in wf_edges :
             e = <<"srtkImageReconstruction", "output_transforms",
                   "srtkTVSuperResolution", "input_transforms">>
       /\ \E e \in wf_edges :
             e = <<"srtkImageReconstruction", "output_sdi",
                   "srtkTVSuperResolution", "input_sdi">>
       /\ "srtkTVSuperResolution"
             \in Feeding("srtkRefineHRMaskByIntersection")
       /\ "srtkTVSuperResolution" \in Feeding("srtkN4BiasFieldCorrection")
       /\ executed # wf_nodes =>
             \E n \in wf_nodes \ executed : Feeding(n) \subseteq executed

\* the super-resolution, the mask refinement and the N4 correction of the
\* HR volume have run
C23_Witness ==
    /\ wf_pc = "running"
    /\ {"srtkTVSuperResolution", "srtkRefineHRMaskByIntersection",
        "srtkN4BiasFieldCorrection"} \subseteq executed
    /\ executed = wf_nodes

\* the connections bound to the port output_metrics of the outputnode
MetricsBindings ==
    {e \in wf_edges : e[3] = "outputnode" /\ e[4] = "output_metrics"}

C27_EveryInputPortConnected ==
    wf_pc = "sr_assessment_created" =>
       \A f \in inputnode_fields :
          \E e \in wf_edges :
             e[1] = "inputnode" /\ e[2] = f /\ e[3] = "quality_metrics"

\* the requested counts that check_and_return_valid_nb_of_cores replaces by
\* the defaults: none given, or both given and too many
CountsReset ==
    /\ Called
    /\ \/ args_openmp = 0 /\ args_nipype = 0
       \/ /\ args_openmp > 0
          /\ args_nipype > 0
          /\ \/ args_openmp >= nb_of_cores
             \/ args_openmp * args_nipype > nb_of_cores

C26_IdentityInjectiveOverGrabbed ==
    pc = "loop" =>
       \A i, j \in 1..Len(input_images) :
          (i # j /\ input_images[i] # input_images[j]) =>
             run_nb_images[i] # run_nb_images[j]

\* C28: for every single-stack interface and every input file, the output
\* paths reported by _list_outputs are the paths the external transform was
\* told to write in _run_interface.
C28_ListedIsWhatWasWritten ==
    pc = "done" => outputs.output_images \o outputs.output_fields = cmd

\* C29: AnatomicalPipeline.run(number_of_cores) executes the workflow for
\* every number_of_cores: with the multi-process engine and number_of_cores
\* processes when it is not 1, serially when it is 1.  Whatever the count, a
\* call of run on a created pipeline starts the execution of the workflow.
C29_RunStartsTheEngine ==
    [][wf_pc = "created" => wf_pc' = "running"]_vars

\* the calls that end run() or create_workflow() with an exception
Raised == wf_pc \in {"crashed", "AttributeError", "TypeError"}

\* C30: the JSON sidecar is written only after the execution of the workflow
\* has returned without error, the image of the processing graph only after
\* the sidecar, and neither is written when the execution raises.
C30_SidecarThenGraphAfterRun ==
    /\ sidecar.written =>
          /\ wf_pc \in {"dictsink_ran", "finished"}
          /\ executed = wf_nodes
          /\ current = "none"
    /\ graph_written => (sidecar.written /\ wf_pc = "finished")
    /\ Raised => (~sidecar.written /\ ~graph_written)

\* a run that returned: the sidecar and the graph image are written
C30_Witness ==
    /\ wf_pc = "finished"
    /\ sidecar.written
    /\ graph_written

====
